---- MODULE Spec2Model ----
(***************************************************************************)
(* ArkScript bytecode compiler (Compiler.cpp) and the scope/frame helpers  *)
(* of the virtual machine (VM.hpp), as a state machine.                    *)
(*                                                                         *)
(* Strings are sequences of atoms: an atom is either one of the separator  *)
(* characters ":", ".", "/" or a run of characters holding none of them.   *)
(* A code page is a sequence of cells [b, k, pg]: b is the byte the        *)
(* compiler stored, k and pg are history fields recording what the         *)
(* compiler emitted the byte as ("op": first byte of an instruction,       *)
(* "arg": operand byte, "fn": the LOAD_CONST opcode byte of a Fun or Quote *)
(* form, whose page id is pg).                                             *)
(***************************************************************************)
EXTENDS Integers, Sequences, FiniteSets, TLC

VARIABLES pc, ast, timestamp, compiler, hdr1, calls, vm

vars == <<pc, ast, timestamp, compiler, hdr1, calls, vm>>

----------------------------------------------------------------------------
(* Bounds of the model *)

\* number of top-level forms of the root (begin ...) block
MaxForms == 2
\* number of addSymbol/addValue calls in a run of the table specification
MaxCalls == 4
\* calls of addSymbol / addValue in a run on nearly full tables
MaxFullCalls == 2
\* number of frames above the root frame in a run of the VM specification
MaxDepth == 2

----------------------------------------------------------------------------
(* Instruction set (Ark/Compiler/Instructions.hpp) *)

\* the values of enum Instruction the compiler uses
Instruction ==
    [LOAD_SYMBOL |-> 1, LOAD_CONST |-> 2, POP_JUMP_IF_TRUE |-> 3,
     STORE |-> 4, LET_ |-> 5, POP_JUMP_IF_FALSE |-> 6,
     JUMP |-> 7, RET |-> 8, HALT |-> 9,
     CALL |-> 10, CAPTURE |-> 11, BUILTIN |-> 12,
     MUT |-> 13, DEL |-> 14, SAVE_ENV |-> 15,
     GET_FIELD |-> 16, PLUGIN |-> 17, LIST |-> 18,
     APPEND |-> 19, CONCAT |-> 20, APPEND_IN_PLACE |-> 21,
     CONCAT_IN_PLACE |-> 22, POP_LIST |-> 23, POP_LIST_IN_PLACE |-> 24,
     FIRST_OPERATOR |-> 32, SYM_TABLE_START |-> 1, VAL_TABLE_START |-> 2,
     CODE_SEGMENT_START |-> 3, NUMBER_TYPE |-> 1, STRING_TYPE |-> 2,
     FUNC_TYPE |-> 3, ADD |-> 32, SUB |-> 33,
     MUL |-> 34, DIV |-> 35, AND_ |-> 51,
     OR_ |-> 52, MOD |-> 53]

\* internal::operators, in opcode order from FIRST_OPERATOR
operators ==
    << <<"+">>, <<"-">>, <<"*">>, <<"/">>, <<">">>, <<"<">>, <<"<=">>, <<">=">>,
       <<"!=">>, <<"=">>, <<"len">>, <<"empty?">>, <<"tail">>, <<"head">>,
       <<"nil?">>, <<"assert">>, <<"toNumber">>, <<"toString">>, <<"@">>,
       <<"and">>, <<"or">>, <<"mod">>, <<"type">>, <<"hasField">>, <<"not">> >>

\* Builtins::builtins (names only), in id order
builtins == << <<"false">>, <<"true">>, <<"nil">>, <<"print">> >>

\* std::numeric_limits<uint16_t>::max()
U16Max == 65535

----------------------------------------------------------------------------
(* AST nodes (internal::Node) and constant-table entries (ValTableElem) *)

Node(t, n, v, k, l) == [type |-> t, name |-> n, num |-> v, kw |-> k, list |-> l]
Sym(n) == Node("Symbol", n, 0, "", <<>>)
Field(n) == Node("GetField", n, 0, "", <<>>)
Capt(n) == Node("Capture", n, 0, "", <<>>)
Str(n) == Node("String", n, 0, "", <<>>)
Num(v) == Node("Number", <<>>, v, "", <<>>)
Kw(k) == Node("Keyword", <<>>, 0, k, <<>>)
List(l) == Node("List", <<>>, 0, "", l)

\* ValTableElem(const Node&) and ValTableElem(std::size_t)
ValOfNode(x) ==
    IF x.type = "Number" THEN [type |-> "Number", num |-> x.num, str |-> <<>>]
    ELSE [type |-> "String", num |-> 0, str |-> x.name]
ValOfPage(page_id) == [type |-> "PageAddr", num |-> page_id, str |-> <<>>]

----------------------------------------------------------------------------
(* Compiler state and page access *)

Cell(b, k, pg) == [b |-> b, k |-> k, pg |-> pg]

NewCompiler ==
    [symbols |-> <<>>, defined |-> <<>>, plugins |-> <<>>, values |-> <<>>,
     code_pages |-> <<>>, temp_pages |-> <<>>, bytecode |-> <<>>,
     err |-> "none", errname |-> <<>>, ret |-> 0, ub |-> 0]

Failed(s) == s.err # "none"

\* throwCompilerError / throw CompilationError
throwCompilerError(s, message, name) ==
    [s EXCEPT !.err = message, !.errname = name]

\* Compiler::page(int i): i >= 0 is final page i, i < 0 is temp page -i - 1
page(s, p) == IF p >= 0 THEN s.code_pages[p + 1] ELSE s.temp_pages[-p]

setPage(s, p, pg) ==
    IF p >= 0 THEN [s EXCEPT !.code_pages[p + 1] = pg]
    ELSE [s EXCEPT !.temp_pages[-p] = pg]

\* page(p).emplace_back(inst)
emplace_back(s, p, b, k, pg) == setPage(s, p, Append(page(s, p), Cell(b, k, pg)))

emit(s, p, inst) == emplace_back(s, p, inst, "op", 0)

Hi(n) == ((n % 65536) \div 256) % 256
Lo(n) == n % 256

\* Compiler::pushNumber(n, page_ptr(p)): two bytes, high byte first
pushNumber(s, n, p) ==
    emplace_back(emplace_back(s, p, Hi(n), "arg", 0), p, Lo(n), "arg", 0)

\* Compiler::pushNumber(n, nullptr): onto m_bytecode
pushNumberBytecode(s, n) ==
    [s EXCEPT !.bytecode = @ \o <<Hi(n), Lo(n)>>]

\* page(p)[pos] = hi; page(p)[pos + 1] = lo  (pos is 0-based)
patchNumber(s, p, pos, n) ==
    LET pg == page(s, p) IN
    setPage(s, p, [pg EXCEPT ![pos + 1].b = Hi(n), ![pos + 2].b = Lo(n)])

pageSize(s, p) == Len(page(s, p))

----------------------------------------------------------------------------
(* Symbol, value and plugin tables *)

Min(S) == CHOOSE i \in S : \A j \in S : i <= j
Max(S) == CHOOSE i \in S : \A j \in S : i >= j

\* std::find / std::find_if: 1-based position of the first match, 0 for end()
Find(seq, x) ==
    LET M == {i \in 1..Len(seq) : seq[i] = x} IN
    IF M = {} THEN 0 ELSE Min(M)

\* Compiler::isOperator, Compiler::isBuiltin: 0-based position, -1 for nullopt
isOperator(name) == Find(operators, name) - 1
isBuiltin(name) == Find(builtins, name) - 1

\* Compiler::isSpecific: the instruction, -1 for nullopt
isSpecific(name) ==
    CASE name = <<"list">> -> Instruction.LIST
      [] name = <<"append">> -> Instruction.APPEND
      [] name = <<"concat">> -> Instruction.CONCAT
      [] name = <<"append!">> -> Instruction.APPEND_IN_PLACE
      [] name = <<"concat!">> -> Instruction.CONCAT_IN_PLACE
      [] name = <<"pop">> -> Instruction.POP_LIST
      [] name = <<"pop!">> -> Instruction.POP_LIST_IN_PLACE
      [] OTHER -> -1

\* mutant of addValueElem: appends without looking the entry up
addValueElem_NoFind(s, v, name) ==
    LET values == Append(s.values, v)
        distance == Len(values) - 1
        s1 == [s EXCEPT !.values = values]
    IN IF distance < U16Max
       THEN [s1 EXCEPT !.ret = distance % 65536]
       ELSE throwCompilerError(s1, "Too many values", name)

\* mutant of addSymbol: returns the size of the table instead of the index
addSymbol_ReturnsSize(s, name) ==
    LET found == Find(s.symbols, name)
        symbols == IF found = 0 THEN Append(s.symbols, name) ELSE s.symbols
        distance == IF found = 0 THEN Len(symbols) ELSE found
        s1 == [s EXCEPT !.symbols = symbols]
    IN IF distance < U16Max
       THEN [s1 EXCEPT !.ret = distance % 65536]
       ELSE throwCompilerError(s1, "Too many symbols", name)

\* Compiler::addSymbol: s.ret is the returned id
addSymbol(s, name) ==
    LET found == Find(s.symbols, name)
        symbols == IF found = 0 THEN Append(s.symbols, name) ELSE s.symbols
        distance == (IF found = 0 THEN Len(symbols) ELSE found) - 1
        s1 == [s EXCEPT !.symbols = symbols]
    IN IF distance < U16Max
       THEN [s1 EXCEPT !.ret = distance % 65536]
       ELSE throwCompilerError(s1, "Too many symbols", name)

\* the find-or-append part shared by both Compiler::addValue overloads
addValueElem(s, v, name) ==
    LET found == Find(s.values, v)
        values == IF found = 0 THEN Append(s.values, v) ELSE s.values
        distance == (IF found = 0 THEN Len(values) ELSE found) - 1
        s1 == [s EXCEPT !.values = values]
    IN IF distance < U16Max
       THEN [s1 EXCEPT !.ret = distance % 65536]
       ELSE throwCompilerError(s1, "Too many values", name)

\* Compiler::addValue(const Node&)
addValue(s, x) == addValueElem(s, ValOfNode(x), x.name)

\* mutant of addValuePage: records the number of pages instead of the page id
addValuePage_NextId(s, page_id) == addValueElem(s, ValOfPage(page_id + 1), <<>>)

\* Compiler::addValue(std::size_t page_id, const Node&)
addValuePage(s, page_id) == addValueElem(s, ValOfPage(page_id), <<>>)

\* Compiler::addDefinedSymbol
addDefinedSymbol(s, name) ==
    IF Find(s.defined, name) = 0
    THEN [s EXCEPT !.defined = Append(@, name)]
    ELSE s

\* Utils::splitString(name, ':')[0]
splitFirst(name) ==
    LET P == {i \in 1..Len(name) : name[i] = ":"} IN
    IF P = {} THEN name ELSE SubSeq(name, 1, Min(P) - 1)

\* std::filesystem::path(plugin).stem()
stem(path) ==
    LET S == {i \in 1..Len(path) : path[i] = "/"}
        filename == IF S = {} THEN path ELSE SubSeq(path, Max(S) + 1, Len(path))
        D == {i \in 1..Len(filename) : filename[i] = "."}
    IN IF D = {} \/ Max(D) = 1 \/ filename = <<".", ".">>
       THEN filename
       ELSE SubSeq(filename, 1, Max(D) - 1)

\* mutant of mayBeFromPlugin: compares the whole name, not its prefix
mayBeFromPlugin_NoSplit(s, name) ==
    \E i \in 1..Len(s.plugins) : stem(s.plugins[i]) = name

\* Compiler::mayBeFromPlugin
mayBeFromPlugin(s, name) ==
    \E i \in 1..Len(s.plugins) : stem(s.plugins[i]) = splitFirst(name)

\* Compiler::countArkObjects
countArkObjects(lst) == Cardinality({i \in 1..Len(lst) : lst[i].type # "GetField"})

\* Compiler::pushSpecificInstArgc
pushSpecificInstArgc(s, inst, previous, p) ==
    IF inst = Instruction.LIST THEN pushNumber(s, previous, p)
    ELSE IF inst \in {Instruction.APPEND, Instruction.APPEND_IN_PLACE, Instruction.CONCAT, Instruction.CONCAT_IN_PLACE}
    THEN pushNumber(s, previous - 1, p)
    ELSE s

----------------------------------------------------------------------------
(* AST lowering *)

RECURSIVE compile_node(_, _, _)
RECURSIVE compileRange(_, _, _, _, _)
RECURSIVE compileSpecificLoop(_, _, _, _)
RECURSIVE compileCaptures(_, _, _, _)
RECURSIVE compileParams(_, _, _, _)
RECURSIVE operatorLoop(_, _, _, _, _, _)

\* for (idx = from; idx < to; ++idx) _compile(lst[idx], p)   (0-based idx)
compileRange(s, lst, from, to, p) ==
    IF Failed(s) \/ from >= to THEN s
    ELSE compileRange(compile_node(s, lst[from + 1], p), lst, from + 1, to, p)

\* mutant of compileSymbol: interns the name before looking at the tables
compileSymbol_InternsFirst(s, x, p) ==
    LET s1 == addSymbol(s, x.name) IN
    IF Failed(s1) THEN s1
    ELSE IF isBuiltin(x.name) >= 0
    THEN pushNumber(emit(s1, p, Instruction.BUILTIN), isBuiltin(x.name), p)
    ELSE IF isOperator(x.name) >= 0
    THEN emit(s1, p, (Instruction.FIRST_OPERATOR + isOperator(x.name)) % 256)
    ELSE pushNumber(emit(s1, p, Instruction.LOAD_SYMBOL), s1.ret, p)

\* Compiler::compileSymbol
compileSymbol(s, x, p) ==
    IF isBuiltin(x.name) >= 0
    THEN pushNumber(emit(s, p, Instruction.BUILTIN), isBuiltin(x.name), p)
    ELSE IF isOperator(x.name) >= 0
    THEN emit(s, p, (Instruction.FIRST_OPERATOR + isOperator(x.name)) % 256)
    ELSE LET s1 == addSymbol(s, x.name) IN
         IF Failed(s1) THEN s1
         ELSE pushNumber(emit(s1, p, Instruction.LOAD_SYMBOL), s1.ret, p)

\* the loop of Compiler::compileSpecific; i is a uint16_t, lst is 0-based in
\* the source.  Reading lst[i] past the end is undefined behaviour: the
\* outcome is drawn by s.ub (the process dies, or never leaves the loop).
compileSpecificLoop(s, lst, i, p) ==
    IF Failed(s) \/ i = 0 THEN s
    ELSE IF i >= Len(lst)
    THEN throwCompilerError(s, IF s.ub < 0 THEN "crash" ELSE "hang", <<>>)
    ELSE LET G == {k \in 0..i : lst[k + 1].type # "GetField"}
             j == Max(G)
             diff == i - j
             s1 == compileRange(s, lst, j, i, p)
             s2 == compile_node(s1, lst[i + 1], p)
         IN compileSpecificLoop(s2, lst, (i - diff - 1) % 65536, p)

\* Compiler::compileSpecific
compileSpecific(s, c0, x, p) ==
    LET inst == isSpecific(c0.name)
        argc == (countArkObjects(x.list) - 1) % 65536
    IN IF argc < 2 /\ inst # Instruction.LIST
       THEN throwCompilerError(s, "can not use with less than 2 arguments", c0.name)
       ELSE LET s1 == compileSpecificLoop(s, x.list, (Len(x.list) - 1) % 65536, p) IN
            IF Failed(s1) THEN s1
            ELSE pushSpecificInstArgc(emit(s1, p, inst), inst, argc, p)

\* Compiler::compileIf
compileIf(s, x, p) ==
    LET s1 == compile_node(s, x.list[2], p) IN
    IF Failed(s1) THEN s1 ELSE
    LET s2 == emit(s1, p, Instruction.POP_JUMP_IF_TRUE)
        jump_to_if_pos == pageSize(s2, p)
        s3 == pushNumber(s2, 0, p)
        s4 == IF Len(x.list) = 4 THEN compile_node(s3, x.list[4], p) ELSE s3
    IN IF Failed(s4) THEN s4 ELSE
    LET s5 == emit(s4, p, Instruction.JUMP)
        jump_to_end_pos == pageSize(s5, p)
        s6 == pushNumber(s5, 0, p)
        s7 == patchNumber(s6, p, jump_to_if_pos, pageSize(s6, p))
        s8 == compile_node(s7, x.list[3], p)
    IN IF Failed(s8) THEN s8
       ELSE patchNumber(s8, p, jump_to_end_pos, pageSize(s8, p))

\* mutant of compileCaptures: no test of the defined symbols
RECURSIVE compileCaptures_Unchecked(_, _, _, _)
compileCaptures_Unchecked(s, lst, k, p) ==
    IF Failed(s) \/ k > Len(lst) THEN s
    ELSE IF lst[k].type # "Capture" THEN compileCaptures_Unchecked(s, lst, k + 1, p)
    ELSE LET s1 == addDefinedSymbol(emit(s, p, Instruction.CAPTURE), lst[k].name)
             s2 == addSymbol(s1, lst[k].name)
         IN IF Failed(s2) THEN s2
            ELSE compileCaptures_Unchecked(pushNumber(s2, s2.ret, p), lst, k + 1, p)

\* first loop of Compiler::compileFunction: the captures, on the current page
compileCaptures(s, lst, k, p) ==
    IF Failed(s) \/ k > Len(lst) THEN s
    ELSE IF lst[k].type # "Capture" THEN compileCaptures(s, lst, k + 1, p)
    ELSE IF Find(s.defined, lst[k].name) = 0
    THEN throwCompilerError(s, "Can not capture", lst[k].name)
    ELSE LET s1 == addDefinedSymbol(emit(s, p, Instruction.CAPTURE), lst[k].name)
             s2 == addSymbol(s1, lst[k].name)
         IN IF Failed(s2) THEN s2
            ELSE compileCaptures(pushNumber(s2, s2.ret, p), lst, k + 1, p)

\* second loop of Compiler::compileFunction: the parameters, on the new page
compileParams(s, lst, k, page_id) ==
    IF Failed(s) \/ k > Len(lst) THEN s
    ELSE IF lst[k].type # "Symbol" THEN compileParams(s, lst, k + 1, page_id)
    ELSE LET s1 == addSymbol(emit(s, page_id, Instruction.MUT), lst[k].name) IN
         IF Failed(s1) THEN s1
         ELSE compileParams(pushNumber(addDefinedSymbol(s1, lst[k].name), s1.ret, page_id),
                            lst, k + 1, page_id)

\* Compiler::compileFunction
compileFunction(s, x, p) ==
    LET s1 == compileCaptures(s, x.list[2].list, 1, p) IN
    IF Failed(s1) THEN s1 ELSE
    LET s2 == [s1 EXCEPT !.code_pages = Append(@, <<>>)]
        page_id == Len(s2.code_pages) - 1
        s3 == emplace_back(s2, p, Instruction.LOAD_CONST, "fn", page_id)
        s4 == addValuePage(s3, page_id)
    IN IF Failed(s4) THEN s4 ELSE
    LET s5 == pushNumber(s4, s4.ret, p)
        s6 == compileParams(s5, x.list[2].list, 1, page_id)
        s7 == compile_node(s6, x.list[3], page_id)
    IN IF Failed(s7) THEN s7 ELSE emit(s7, page_id, Instruction.RET)

\* Compiler::putValue
putValue(s, x, p) == compileRange(s, x.list, 2, Len(x.list), p)

\* Compiler::compileLetMut
compileLetMut(s, n, x, p) ==
    LET s1 == addSymbol(s, x.list[2].name) IN
    IF Failed(s1) THEN s1 ELSE
    LET i == s1.ret
        s2 == putValue(addDefinedSymbol(s1, x.list[2].name), x, p)
    IN IF Failed(s2) THEN s2
       ELSE pushNumber(emit(s2, p, IF n = "Let" THEN Instruction.LET_ ELSE Instruction.MUT), i, p)

\* Compiler::compileWhile
compileWhile(s, x, p) ==
    LET current == pageSize(s, p)
        s1 == compile_node(s, x.list[2], p)
    IN IF Failed(s1) THEN s1 ELSE
    LET s2 == emit(s1, p, Instruction.POP_JUMP_IF_FALSE)
        jump_to_end_pos == pageSize(s2, p)
        s3 == pushNumber(s2, 0, p)
        s4 == compile_node(s3, x.list[3], p)
    IN IF Failed(s4) THEN s4 ELSE
    LET s5 == pushNumber(emit(s4, p, Instruction.JUMP), current, p)
    IN patchNumber(s5, p, jump_to_end_pos, pageSize(s5, p))

\* mutant of compileSet: defines the name, as compileLetMut does
compileSet_Defines(s, x, p) ==
    LET s1 == addSymbol(s, x.list[2].name) IN
    IF Failed(s1) THEN s1 ELSE
    LET i == s1.ret
        s2 == putValue(addDefinedSymbol(s1, x.list[2].name), x, p)
    IN IF Failed(s2) THEN s2 ELSE pushNumber(emit(s2, p, Instruction.STORE), i, p)

\* Compiler::compileSet
compileSet(s, x, p) ==
    LET s1 == addSymbol(s, x.list[2].name) IN
    IF Failed(s1) THEN s1 ELSE
    LET i == s1.ret
        s2 == putValue(s1, x, p)
    IN IF Failed(s2) THEN s2 ELSE pushNumber(emit(s2, p, Instruction.STORE), i, p)

\* Compiler::compileQuote
compileQuote(s, x, p) ==
    LET s1 == [s EXCEPT !.code_pages = Append(@, <<>>)]
        page_id == Len(s1.code_pages) - 1
        s2 == compile_node(s1, x.list[2], page_id)
    IN IF Failed(s2) THEN s2 ELSE
    LET s3 == addValuePage(emit(s2, page_id, Instruction.RET), page_id) IN
    IF Failed(s3) THEN s3
    ELSE pushNumber(emplace_back(s3, p, Instruction.LOAD_CONST, "fn", page_id), s3.ret, p)

\* Compiler::compilePluginImport
compilePluginImport(s, x, p) ==
    LET s1 == addValue(s, x.list[2]) IN
    IF Failed(s1) THEN s1 ELSE
    LET s2 == [s1 EXCEPT !.plugins = Append(@, x.list[2].name)]
    IN pushNumber(emit(s2, p, Instruction.PLUGIN), s1.ret, p)

\* Compiler::compileDel
compileDel(s, x, p) ==
    LET s1 == addSymbol(s, x.list[2].name) IN
    IF Failed(s1) THEN s1 ELSE pushNumber(emit(s1, p, Instruction.DEL), s1.ret, p)

\* the argument loop of the operator branch of Compiler::handleCalls;
\* index is 0-based, s.ret carries exp_count out of the loop
operatorLoop(s, lst, index, exp_count, op_inst, p) ==
    IF Failed(s) THEN s
    ELSE IF index >= Len(lst) THEN [s EXCEPT !.ret = exp_count]
    ELSE LET s1 == compile_node(s, lst[index + 1], p) IN
         IF Failed(s1) THEN s1 ELSE
         LET counted == \/ /\ index + 1 < Len(lst)
                           /\ lst[index + 2].type # "GetField"
                           /\ lst[index + 2].type # "Capture"
                        \/ index + 1 = Len(lst)
             ec == IF counted THEN exp_count + 1 ELSE exp_count
             s2 == IF ec >= 2 THEN emit(s1, p, op_inst) ELSE s1
         IN operatorLoop(s2, lst, index + 1, ec, op_inst, p)

\* variants of handleCalls: calleeFirst appends the callee page before the
\* arguments are compiled, keepTemp leaves the callee page on the temp stack
handleCallsVariant(s, x, p, calleeFirst, keepTemp) ==
    LET s0 == [s EXCEPT !.temp_pages = Append(@, <<>>)]
        proc_page == -Len(s0.temp_pages)
        s1 == compile_node(s0, x.list[1], proc_page)
        end == Len(x.list)
        \* n: first index >= 1 (0-based) that is not a GetField, or end
        N == {k \in 1..(end - 1) : x.list[k + 1].type # "GetField"}
        n == IF N = {} THEN end ELSE Min(N)
        s2 == compileRange(s1, x.list, 1, n, proc_page)
    IN IF Failed(s2) THEN s2 ELSE
    LET back == s2.temp_pages[Len(s2.temp_pages)]
        proc_page_len == Len(back)
    IN IF proc_page_len > 1
       THEN LET s3 == IF calleeFirst
                      THEN compileRange(setPage(s2, p, page(s2, p) \o back), x.list, n, end, p)
                      ELSE compileRange(s2, x.list, n, end, p)
            IN
            IF Failed(s3) THEN s3 ELSE
            LET top == s3.temp_pages[Len(s3.temp_pages)]
                s4 == IF calleeFirst THEN s3 ELSE setPage(s3, p, page(s3, p) \o top)
                s5 == IF keepTemp THEN s4
                      ELSE [s4 EXCEPT !.temp_pages = SubSeq(@, 1, Len(@) - 1)]
                args_count == Cardinality({k \in 2..end :
                                  /\ x.list[k].type # "GetField"
                                  /\ x.list[k].type # "Capture"})
            IN pushNumber(emit(s5, p, Instruction.CALL), args_count, p)
       ELSE \* m_temp_pages.back()[0]: undefined behaviour on an empty page,
            \* the outcome (the process dies, or some byte is read) is s.ub
            IF proc_page_len = 0 /\ s2.ub < 0
            THEN throwCompilerError(s2, "crash", <<>>)
            ELSE
            LET op_inst == IF proc_page_len = 0 THEN s2.ub ELSE back[1].b
                s3 == IF keepTemp THEN s2
                      ELSE [s2 EXCEPT !.temp_pages = SubSeq(@, 1, Len(@) - 1)]
                s4 == operatorLoop(s3, x.list, n, 0, op_inst, p)
            IN IF Failed(s4) THEN s4 ELSE
            LET exp_count == s4.ret
                s5 == IF exp_count = 1 THEN emit(s4, p, op_inst) ELSE s4
            IN IF exp_count > 2 /\ op_inst \notin {Instruction.ADD, Instruction.SUB, Instruction.DIV, Instruction.MUL, Instruction.MOD, Instruction.AND_, Instruction.OR_}
               THEN throwCompilerError(s5, "can not create a chained expression", <<>>)
               ELSE s5

handleCalls_CalleeFirst(s, x, p) == handleCallsVariant(s, x, p, TRUE, FALSE)

handleCalls_KeepsTemp(s, x, p) == handleCallsVariant(s, x, p, FALSE, TRUE)

\* Compiler::handleCalls
handleCalls(s, x, p) ==
    LET s0 == [s EXCEPT !.temp_pages = Append(@, <<>>)]
        proc_page == -Len(s0.temp_pages)
        s1 == compile_node(s0, x.list[1], proc_page)
        end == Len(x.list)
        \* n: first index >= 1 (0-based) that is not a GetField, or end
        N == {k \in 1..(end - 1) : x.list[k + 1].type # "GetField"}
        n == IF N = {} THEN end ELSE Min(N)
        s2 == compileRange(s1, x.list, 1, n, proc_page)
    IN IF Failed(s2) THEN s2 ELSE
    LET back == s2.temp_pages[Len(s2.temp_pages)]
        proc_page_len == Len(back)
    IN IF proc_page_len > 1
       THEN LET s3 == compileRange(s2, x.list, n, end, p) IN
            IF Failed(s3) THEN s3 ELSE
            LET top == s3.temp_pages[Len(s3.temp_pages)]
                s4 == setPage(s3, p, page(s3, p) \o top)
                s5 == [s4 EXCEPT !.temp_pages = SubSeq(@, 1, Len(@) - 1)]
                args_count == Cardinality({k \in 2..end :
                                  /\ x.list[k].type # "GetField"
                                  /\ x.list[k].type # "Capture"})
            IN pushNumber(emit(s5, p, Instruction.CALL), args_count, p)
       ELSE \* m_temp_pages.back()[0]: undefined behaviour on an empty page,
            \* the outcome (the process dies, or some byte is read) is s.ub
            IF proc_page_len = 0 /\ s2.ub < 0
            THEN throwCompilerError(s2, "crash", <<>>)
            ELSE
            LET op_inst == IF proc_page_len = 0 THEN s2.ub ELSE back[1].b
                s3 == [s2 EXCEPT !.temp_pages = SubSeq(@, 1, Len(@) - 1)]
                s4 == operatorLoop(s3, x.list, n, 0, op_inst, p)
            IN IF Failed(s4) THEN s4 ELSE
            LET exp_count == s4.ret
                s5 == IF exp_count = 1 THEN emit(s4, p, op_inst) ELSE s4
            IN IF exp_count > 2 /\ op_inst \notin {Instruction.ADD, Instruction.SUB, Instruction.DIV, Instruction.MUL, Instruction.MOD, Instruction.AND_, Instruction.OR_}
               THEN throwCompilerError(s5, "can not create a chained expression", <<>>)
               ELSE s5

\* Compiler::_compile
compile_node(s, x, p) ==
    IF Failed(s) THEN s
    ELSE IF x.type = "Symbol" THEN compileSymbol(s, x, p)
    ELSE IF x.type = "GetField"
    THEN LET s1 == addSymbol(s, x.name) IN
         IF Failed(s1) THEN s1 ELSE pushNumber(emit(s1, p, Instruction.GET_FIELD), s1.ret, p)
    ELSE IF x.type \in {"String", "Number"}
    THEN LET s1 == addValue(s, x) IN
         IF Failed(s1) THEN s1 ELSE pushNumber(emit(s1, p, Instruction.LOAD_CONST), s1.ret, p)
    ELSE IF x.list = <<>>
    THEN pushNumber(emit(s, p, Instruction.BUILTIN), isBuiltin(<<"nil">>), p)
    ELSE IF x.list[1].type = "Symbol" /\ isSpecific(x.list[1].name) >= 0
    THEN compileSpecific(s, x.list[1], x, p)
    ELSE IF x.list[1].type = "Keyword"
    THEN CASE x.list[1].kw = "If" -> compileIf(s, x, p)
           [] x.list[1].kw = "Set" -> compileSet(s, x, p)
           [] x.list[1].kw \in {"Let", "Mut"} -> compileLetMut(s, x.list[1].kw, x, p)
           [] x.list[1].kw = "Fun" -> compileFunction(s, x, p)
           [] x.list[1].kw = "Begin" -> compileRange(s, x.list, 1, Len(x.list), p)
           [] x.list[1].kw = "While" -> compileWhile(s, x, p)
           [] x.list[1].kw = "Import" -> compilePluginImport(s, x, p)
           [] x.list[1].kw = "Quote" -> compileQuote(s, x, p)
           [] x.list[1].kw = "Del" -> compileDel(s, x, p)
    ELSE handleCalls(s, x, p)

----------------------------------------------------------------------------
(* Serialisation *)

\* Ark/Config.hpp
ARK_VERSION_MAJOR == 3
ARK_VERSION_MINOR == 1
ARK_VERSION_PATCH == 0

\* the bytes of an atom (ASCII)
AtomBytes(a) ==
    CASE a = "a" -> <<97>>
      [] a = "b" -> <<98>>
      [] a = "f" -> <<102>>
      [] a = "m" -> <<109>>
      [] a = "x" -> <<120>>
      [] a = "s" -> <<115>>
      [] a = ":" -> <<58>>
      [] a = "." -> <<46>>
      [] a = "/" -> <<47>>
      [] a = "lib" -> <<108, 105, 98>>
      [] a = "arkm" -> <<97, 114, 107, 109>>
      [] a = "list" -> <<108, 105, 115, 116>>

RECURSIVE StringBytes(_)
StringBytes(name) ==
    IF name = <<>> THEN <<>> ELSE AtomBytes(Head(name)) \o StringBytes(Tail(name))

RECURSIVE Digits(_)
Digits(n) == IF n < 10 THEN <<48 + n>> ELSE Digits(n \div 10) \o <<48 + (n % 10)>>

\* std::to_string(double) of a non-negative integral value: "%f"
to_string(n) == Digits(n) \o <<46, 48, 48, 48, 48, 48, 48>>

\* the timestamp loop of Compiler::pushHeadersPhase1; the 64-bit timestamp
\* is held as four 16-bit limbs, most significant first, and the byte taken
\* by the shift d = 56 - 8 * c is the high or low byte of limb c / 2
TimestampBytes(ts) ==
    [k \in 1..8 |-> IF k % 2 = 1 THEN Hi(ts[(k + 1) \div 2]) ELSE Lo(ts[(k + 1) \div 2])]

\* Compiler::pushHeadersPhase1
pushHeadersPhase1(s, ts) ==
    LET s1 == [s EXCEPT !.bytecode = @ \o <<97, 114, 107, 0>>]
        s2 == pushNumberBytecode(s1, ARK_VERSION_MAJOR)
        s3 == pushNumberBytecode(s2, ARK_VERSION_MINOR)
        s4 == pushNumberBytecode(s3, ARK_VERSION_PATCH)
    IN [s4 EXCEPT !.bytecode = @ \o TimestampBytes(ts)]

RECURSIVE SymbolBytes(_, _)
SymbolBytes(symbols, k) ==
    IF k > Len(symbols) THEN <<>>
    ELSE StringBytes(symbols[k]) \o <<0>> \o SymbolBytes(symbols, k + 1)

\* one iteration of the value loop of Compiler::pushHeadersPhase2
ValueBytes(val) ==
    CASE val.type = "Number" -> <<Instruction.NUMBER_TYPE>> \o to_string(val.num) \o <<0>>
      [] val.type = "String" -> <<Instruction.STRING_TYPE>> \o StringBytes(val.str) \o <<0>>
      [] val.type = "PageAddr" -> <<Instruction.FUNC_TYPE, Hi(val.num), Lo(val.num), 0>>

RECURSIVE ValuesBytes(_, _)
ValuesBytes(values, k) ==
    IF k > Len(values) THEN <<>>
    ELSE ValueBytes(values[k]) \o ValuesBytes(values, k + 1)

\* Compiler::pushHeadersPhase2
pushHeadersPhase2(s) ==
    LET s1 == pushNumberBytecode([s EXCEPT !.bytecode = Append(@, Instruction.SYM_TABLE_START)],
                                 Len(s.symbols))
        s2 == [s1 EXCEPT !.bytecode = @ \o SymbolBytes(s.symbols, 1)]
        s3 == pushNumberBytecode([s2 EXCEPT !.bytecode = Append(@, Instruction.VAL_TABLE_START)],
                                 Len(s.values))
    IN [s3 EXCEPT !.bytecode = @ \o ValuesBytes(s.values, 1)]

PageBytes(pg) == [k \in 1..Len(pg) |-> pg[k].b]

\* one iteration of the code segment loop of Compiler::compile
Segment(pg) ==
    <<Instruction.CODE_SEGMENT_START, Hi(Len(pg) + 1), Lo(Len(pg) + 1)>> \o PageBytes(pg) \o <<Instruction.HALT>>

RECURSIVE Segments(_, _)
Segments(pages, k) ==
    IF k > Len(pages) THEN <<>> ELSE Segment(pages[k]) \o Segments(pages, k + 1)

\* the code segment part of Compiler::compile
pushCodeSegments(s) ==
    IF Len(s.code_pages) # 0
    THEN [s EXCEPT !.bytecode = @ \o Segments(s.code_pages, 1)]
    ELSE [s EXCEPT !.bytecode = @ \o <<Instruction.CODE_SEGMENT_START, 0, 1, Instruction.HALT>>]

\* picosha2::k_digest_size
k_digest_size == 32

\* picosha2::hash256, abstracted: a 32-byte digest that depends on every byte
\* of the range, on its position and on the length of the range
RECURSIVE HashSum(_, _, _)
HashSum(bytes, lo, hi) ==
    IF lo > hi THEN 0
    ELSE IF lo = hi THEN ((lo % 251) + 1) * (bytes[lo] + 1)
    ELSE LET mid == (lo + hi) \div 2 IN
         (HashSum(bytes, lo, mid) + HashSum(bytes, mid + 1, hi)) % 16777213

hash256(bytes) ==
    LET h == (HashSum(bytes, 1, Len(bytes)) + Len(bytes)) % 16777213
    IN [i \in 1..k_digest_size |-> ((h \div (256 ^ (i % 3))) + i) % 256]

header_size == 18

\* mutant of insertHash: the digest covers the header too
insertHash_FromBegin(s) ==
    LET bc == s.bytecode
        hash == hash256(bc)
    IN [s EXCEPT !.bytecode = SubSeq(bc, 1, header_size) \o hash
                              \o SubSeq(bc, header_size + 1, Len(bc))]

\* the end of Compiler::compile: hash the tables and the code, insert the digest
insertHash(s) ==
    LET bc == s.bytecode
        hash == hash256(SubSeq(bc, header_size + 1, Len(bc)))
    IN [s EXCEPT !.bytecode = SubSeq(bc, 1, header_size) \o hash
                              \o SubSeq(bc, header_size + 1, Len(bc))]

\* Compiler::checkForUndefinedSymbol
checkForUndefinedSymbol(s) ==
    LET U == {k \in 1..Len(s.symbols) :
                 /\ Find(s.defined, s.symbols[k]) = 0
                 /\ ~mayBeFromPlugin(s, s.symbols[k])}
    IN IF U = {} THEN s
       ELSE throwCompilerError(s, "Unbound variable error", s.symbols[Min(U)])

----------------------------------------------------------------------------
(* Inputs of the compiler specification *)

nA == <<"a">>
nB == <<"b">>
nX == <<"x">>
nMF == <<"m", ":", "f">>
nPlugin == <<"lib", "/", "m", ".", "arkm">>

Call(l) == List(l)
Form(k, l) == List(<<Kw(k)>> \o l)

\* the top-level forms the root block is built from
Forms ==
    << Form("Let", <<Sym(nA), Num(1)>>),                                  \* (let a 1)
       Form("Mut", <<Sym(nB), Str(<<"s">>)>>),                            \* (mut b "s")
       Form("Set", <<Sym(nA), Call(<<Sym(<<"+">>), Sym(nA), Num(1)>>)>>), \* (set a (+ a 1))
       Form("Del", <<Sym(nB)>>),                                          \* (del b)
       Call(<<Sym(nMF), Sym(nB)>>),                                       \* (m:f b)
       Sym(nMF),                                                          \* m:f
       Form("Import", <<Str(nPlugin)>>),                                  \* (import "lib/m.arkm")
       Form("If", <<Sym(nA), Num(1), Num(2)>>),                           \* (if a 1 2)
       Form("While", <<Sym(nA), Form("Set", <<Sym(nA), Num(2)>>)>>),      \* (while a (set a 2))
       Form("Fun", <<List(<<Sym(nX), Capt(nA)>>),
                     Call(<<Sym(<<"-">>), Sym(nX), Sym(nA)>>)>>),         \* (fun (x &a) (- x a))
       Form("Quote", <<Call(<<Sym(<<"print">>), Num(1)>>)>>),             \* (quote (print 1))
       Call(<<Form("If", <<Num(1), Sym(<<"print">>), Sym(<<"print">>)>>),
              Call(<<Sym(<<"+">>), Num(1), Num(2)>>)>>),                  \* ((if 1 print print) (+ 1 2))
       Call(<<Form("While", <<Num(1), Sym(<<"print">>)>>),
              Call(<<Sym(<<"not">>), Num(1)>>)>>),                        \* ((while 1 print) (not 1))
       Call(<<Sym(nA), Field(nB), Num(1), Sym(nA), Field(nB)>>),          \* (a.b 1 a.b)
       Call(<<Sym(<<"+">>), Num(1), Num(2), Sym(nA)>>),                   \* (+ 1 2 a)
       Call(<<Sym(<<"<">>), Num(1), Num(2), Num(3)>>),                    \* (< 1 2 3)
       Call(<<Sym(<<"list">>), Num(1), Sym(nA), Field(nB)>>),             \* (list 1 a.b)
       Call(<<Sym(<<"append">>), Sym(nA)>>),                              \* (append a)
       Call(<<Form("Begin", <<>>), Num(1)>>),                             \* ((begin) 1)
       Call(<<Sym(<<"list">>), Field(nB)>>),                              \* (list .b)
       Call(<<Form("Fun", <<List(<<Sym(nX)>>), Sym(nX)>>), Num(1)>>),     \* ((fun (x) x) 1)
       Form("Fun", <<List(<<Capt(nB)>>), Sym(nB)>>),                      \* (fun (&b) b)
       List(<<>>),                                                        \* ()
       Call(<<Call(<<Sym(nA), Num(1)>>), Num(2)>>),                       \* ((a 1) 2)
       Form("If", <<Sym(nB), Form("If", <<Sym(nA), Num(1)>>)>>),          \* (if b (if a 1))
       Sym(<<"m">>),                                                      \* m
       Form("Begin", <<Num(0), Num(0)>>)                                  \* (begin 0 0)
    >>

RECURSIVE FormSeqs(_)
FormSeqs(n) ==
    IF n = 0 THEN {<<>>}
    ELSE LET R == FormSeqs(n - 1) IN
         R \cup {Append(q, Forms[k]) : q \in {r \in R : Len(r) = n - 1}, k \in 1..Len(Forms)}

\* the ASTs handed to compile(): a root (begin ...) of at most MaxForms forms
Asts == {Form("Begin", q) : q \in FormSeqs(MaxForms)}

\* values of the clock read by pushHeadersPhase1
Timestamps == {<<0, 0, 25939, 61696>>, <<258, 772, 1286, 1800>>}

\* outcomes of reading m_temp_pages.back()[0] on an empty page: -1 is the
\* death of the process, the others are the byte read
UbOutcomes == {-1, 0, Instruction.LOAD_SYMBOL, Instruction.ADD}

NoLog == [op |-> "none"]

NoVm == [frames |-> <<>>, locals |-> <<>>, heap |-> <<>>, log |-> NoLog]

\* The vectors of the Compiler object are held in the state in rows of RowLen
\* elements; Rows and Flat convert between a vector and its rows.
RowLen == 16 * 16

Rows(v) ==
    IF Len(v) = 0 THEN <<>>
    ELSE [r \in 1..((Len(v) + RowLen - 1) \div RowLen) |->
             SubSeq(v, (r - 1) * RowLen + 1, Min({r * RowLen, Len(v)}))]

Flat(rows) ==
    IF Len(rows) = 0 THEN <<>>
    ELSE [i \in 1..((Len(rows) - 1) * RowLen + Len(rows[Len(rows)])) |->
             rows[((i - 1) \div RowLen) + 1][((i - 1) % RowLen) + 1]] \o <<>>

Pack(s) ==
    [s EXCEPT !.symbols = Rows(@), !.values = Rows(@), !.bytecode = Rows(@),
              !.code_pages = [i \in 1..Len(@) |-> Rows(@[i])],
              !.temp_pages = [i \in 1..Len(@) |-> Rows(@[i])]]

Unpack(s) ==
    [s EXCEPT !.symbols = Flat(@), !.values = Flat(@), !.bytecode = Flat(@),
              !.code_pages = [i \in 1..Len(@) |-> Flat(@[i])],
              !.temp_pages = [i \in 1..Len(@) |-> Flat(@[i])]]

\* the Compiler object
c == Unpack(compiler)

----------------------------------------------------------------------------
(* Compiler::compile as a state machine *)

Init ==
    /\ pc = "start"
    /\ ast \in Asts
    /\ timestamp = <<0, 0, 0, 0>>
    /\ compiler = Pack(NewCompiler)
    /\ hdr1 = <<>>
    /\ calls = <<>>
    /\ vm = NoVm

\* pushHeadersPhase1(); m_code_pages.emplace_back();
Phase1 ==
    /\ pc = "start"
    /\ \E ts \in Timestamps :
          /\ timestamp' = ts
          /\ compiler' = Pack([pushHeadersPhase1(c, ts) EXCEPT !.code_pages = Append(@, <<>>)])
    /\ hdr1' = c'.bytecode
    /\ pc' = "lower"
    /\ UNCHANGED <<ast, calls, vm>>

\* _compile(m_optimizer.ast(), 0);
Lower ==
    /\ pc = "lower"
    /\ \E u \in UbOutcomes :
          compiler' = Pack([compile_node([c EXCEPT !.ub = u], ast, 0) EXCEPT !.ub = 0, !.ret = 0])
    /\ pc' = IF Failed(c') THEN "error" ELSE "check"
    /\ UNCHANGED <<ast, timestamp, hdr1, calls, vm>>

\* checkForUndefinedSymbol();
Check ==
    /\ pc = "check"
    /\ compiler' = Pack(checkForUndefinedSymbol(c))
    /\ pc' = IF Failed(c') THEN "error" ELSE "phase2"
    /\ UNCHANGED <<ast, timestamp, hdr1, calls, vm>>

\* pushHeadersPhase2();
Phase2 ==
    /\ pc = "phase2"
    /\ compiler' = Pack(pushHeadersPhase2(c))
    /\ pc' = "segments"
    /\ UNCHANGED <<ast, timestamp, hdr1, calls, vm>>

\* the code segment loop and the no-page case
CodeSegments ==
    /\ pc = "segments"
    /\ compiler' = Pack(pushCodeSegments(c))
    /\ pc' = "hash"
    /\ UNCHANGED <<ast, timestamp, hdr1, calls, vm>>

\* hash256 + insert
Hash ==
    /\ pc = "hash"
    /\ compiler' = Pack(insertHash(c))
    /\ pc' = "done"
    /\ UNCHANGED <<ast, timestamp, hdr1, calls, vm>>

Next == Phase1 \/ Lower \/ Check \/ Phase2 \/ CodeSegments \/ Hash

Spec == Init /\ [][Next]_vars

----------------------------------------------------------------------------
(* Reading a page and a container back *)

U16(hi, lo) == hi * 256 + lo

\* the positions (1-based) of the instructions the compiler emitted on a page
InstStarts(pg) == {k \in 1..Len(pg) : pg[k].k \in {"op", "fn"}}

\* the positions of the emitted instructions with opcode in ops that carry a
\* 16-bit operand
WithOperand(pg, ops) ==
    {k \in InstStarts(pg) : /\ pg[k].b \in ops
                            /\ k + 2 <= Len(pg)
                            /\ pg[k + 1].k = "arg"
                            /\ pg[k + 2].k = "arg"}

Operand(pg, k) == U16(pg[k + 1].b, pg[k + 2].b)

Succeeded == pc = "done"

\* position just after n NUL-terminated strings starting at pos
RECURSIVE SkipStrings(_, _, _)
SkipStrings(bc, pos, n) ==
    IF n = 0 THEN pos
    ELSE SkipStrings(bc, Min({i \in pos..Len(bc) : bc[i] = 0}) + 1, n - 1)

\* position just after n value-table entries starting at pos
RECURSIVE SkipValues(_, _, _)
SkipValues(bc, pos, n) ==
    IF n = 0 THEN pos
    ELSE IF bc[pos] = Instruction.FUNC_TYPE THEN SkipValues(bc, pos + 4, n - 1)
    ELSE SkipValues(bc, Min({i \in (pos + 1)..Len(bc) : bc[i] = 0}) + 1, n - 1)

\* the tables of a finished container (1-based positions; offset 50 is 51)
SymCountOf(bc) == U16(bc[52], bc[53])
ValTablePosOf(bc) == SkipStrings(bc, 54, SymCountOf(bc))
ValCountOf(bc) == U16(bc[ValTablePosOf(bc) + 1], bc[ValTablePosOf(bc) + 2])
CodePosOf(bc) == SkipValues(bc, ValTablePosOf(bc) + 3, ValCountOf(bc))

----------------------------------------------------------------------------
(* Claims about compile() *)

JumpOps == {Instruction.POP_JUMP_IF_TRUE, Instruction.POP_JUMP_IF_FALSE, Instruction.JUMP}

JumpTargetOk(pg, k) ==
    LET target == Operand(pg, k) IN
    \/ target = Len(pg)
    \/ target < Len(pg) /\ (target + 1) \in InstStarts(pg)

\* C1: in every final page of a finished compile(), the operand of each
\* POP_JUMP_IF_TRUE, POP_JUMP_IF_FALSE and JUMP is an offset of that page at
\* which an instruction of the page (or its terminating HALT) starts.
C1_JumpTargetsOnBoundaries ==
    Succeeded =>
        \A i \in 1..Len(c.code_pages) :
            \A k \in WithOperand(c.code_pages[i], JumpOps) :
                JumpTargetOk(c.code_pages[i], k)

SymbolOps == {Instruction.LOAD_SYMBOL, Instruction.STORE, Instruction.LET_, Instruction.MUT, Instruction.DEL, Instruction.GET_FIELD, Instruction.CAPTURE}
ValueOps == {Instruction.LOAD_CONST, Instruction.PLUGIN}

\* C2: after a successful compile(), every operand of LOAD_SYMBOL, STORE,
\* LET, MUT, DEL, GET_FIELD and CAPTURE in a final page is below the symbol
\* count written in the container, and every operand of LOAD_CONST and PLUGIN
\* is below the value count written in the container.
C2_OperandsInRange ==
    Succeeded =>
        \A i \in 1..Len(c.code_pages) :
            LET pg == c.code_pages[i] IN
            /\ \A k \in WithOperand(pg, SymbolOps) :
                   Operand(pg, k) < SymCountOf(c.bytecode)
            /\ \A k \in WithOperand(pg, ValueOps) :
                   Operand(pg, k) < ValCountOf(c.bytecode)

\* C2 witness: a finished compile whose pages use the last symbol and the
\* last value of tables of two or more entries
C2_Witness ==
    /\ Succeeded
    /\ SymCountOf(c.bytecode) >= 2
    /\ ValCountOf(c.bytecode) >= 2
    /\ \E i \in 1..Len(c.code_pages) :
          LET pg == c.code_pages[i] IN
          /\ \E k \in WithOperand(pg, SymbolOps) :
                Operand(pg, k) = SymCountOf(c.bytecode) - 1
          /\ \E k \in WithOperand(pg, ValueOps) :
                Operand(pg, k) = ValCountOf(c.bytecode) - 1

PageAddrs == {k \in 1..Len(c.values) : c.values[k].type = "PageAddr"}

\* C3: after a successful compile(), every PageAddr constant holds the id of
\* an existing final page other than page 0, every final page other than
\* page 0 is named by exactly one PageAddr constant, and the LOAD_CONST of a
\* Fun or Quote form refers to the PageAddr of the page allocated for it.
C3_PageAddrs ==
    Succeeded =>
        /\ \A k \in PageAddrs :
               0 < c.values[k].num /\ c.values[k].num < Len(c.code_pages)
        /\ \A id \in 1..(Len(c.code_pages) - 1) :
               Cardinality({k \in PageAddrs : c.values[k].num = id}) = 1
        /\ \A i \in 1..Len(c.code_pages) :
               LET pg == c.code_pages[i] IN
               \A k \in {j \in 1..Len(pg) : pg[j].k = "fn"} :
                   /\ k \in WithOperand(pg, {Instruction.LOAD_CONST})
                   /\ Operand(pg, k) < Len(c.values)
                   /\ c.values[Operand(pg, k) + 1] = ValOfPage(pg[k].pg)

\* C3 witness: a finished compile with two function/quote pages, the
\* LOAD_CONST of one of them emitted on a page after other instructions
C3_Witness ==
    /\ Succeeded
    /\ Len(c.code_pages) >= 3
    /\ \E i \in 1..Len(c.code_pages) :
          \E k \in 2..Len(c.code_pages[i]) : c.code_pages[i][k].k = "fn"

\* C4: after a successful compile() on a fresh Compiler, bytes 18..49 are
\* the digest of the bytes from offset 50 to the end, the first 18 bytes are
\* those written by phase 1, and the byte at offset 50 is SYM_TABLE_START.
C4_HashOverTablesAndCode ==
    Succeeded =>
        LET bc == c.bytecode IN
        /\ Len(bc) > 50
        /\ SubSeq(bc, 19, 50) = hash256(SubSeq(bc, 51, Len(bc)))
        /\ SubSeq(bc, 1, 18) = hdr1
        /\ Len(hdr1) = 18
        /\ bc[51] = Instruction.SYM_TABLE_START

\* C4 witness: a finished container with symbols, values and two segments
C4_Witness ==
    /\ Succeeded
    /\ Len(c.symbols) >= 1
    /\ Len(c.values) >= 1
    /\ Len(c.code_pages) >= 2
    /\ timestamp # <<0, 0, 0, 0>>

\* C6: compile() aborts with the unbound-variable error exactly when, at the
\* end of lowering, some symbol-table name is neither defined nor has the
\* stem of a recorded plugin as its prefix, and the error names the first
\* such name of the table.
Unbound(k) ==
    /\ \A d \in 1..Len(c.defined) : c.defined[d] # c.symbols[k]
    /\ \A q \in 1..Len(c.plugins) : stem(c.plugins[q]) # splitFirst(c.symbols[k])

C6_UnboundIff ==
    (pc \notin {"start", "lower", "check"} /\ c.err \in {"none", "Unbound variable error"}) =>
        /\ (c.err = "Unbound variable error") <=> (\E k \in 1..Len(c.symbols) : Unbound(k))
        /\ (c.err = "Unbound variable error") =>
               \E k \in 1..Len(c.symbols) :
                   /\ Unbound(k)
                   /\ \A j \in 1..(k - 1) : ~Unbound(j)
                   /\ c.errname = c.symbols[k]
        /\ (c.err = "none") <=> (pc # "error")

\* C6 witness: the error raised on the second name of a table whose first
\* name is not defined and is covered by a plugin prefix
C6_Witness ==
    /\ pc = "error"
    /\ c.err = "Unbound variable error"
    /\ Len(c.symbols) >= 2
    /\ c.errname = c.symbols[2]
    /\ \A d \in 1..Len(c.defined) : c.defined[d] # c.symbols[1]
    /\ Len(c.plugins) >= 1

\* C6 witness of the other direction: a finished compile with a name that is
\* not defined and passes only by its plugin prefix
C6_WitnessPlugin ==
    /\ Succeeded
    /\ \E k \in 1..Len(c.symbols) :
          \A d \in 1..Len(c.defined) : c.defined[d] # c.symbols[k]

\* the code region starting at pos holds the segments of pages k.. and ends
\* with the last of them
RECURSIVE SegmentsAt(_, _, _, _)
SegmentsAt(bc, pos, pages, k) ==
    IF k > Len(pages) THEN pos = Len(bc) + 1
    ELSE LET n == Len(pages[k]) IN
         /\ pos + 3 + n <= Len(bc)
         /\ bc[pos] = Instruction.CODE_SEGMENT_START
         /\ U16(bc[pos + 1], bc[pos + 2]) = n + 1
         /\ \A j \in 1..n : bc[pos + 2 + j] = pages[k][j].b
         /\ bc[pos + 3 + n] = Instruction.HALT
         /\ SegmentsAt(bc, pos + 4 + n, pages, k + 1)

\* C5: after a successful compile(), the code region holds exactly one
\* segment per final page, in page-id order, each CODE_SEGMENT_START, a
\* big-endian u16 equal to the page's length plus one, the page's bytes, HALT;
\* there is at least one segment, and with no page the region is the single
\* segment CODE_SEGMENT_START 0 1 HALT.
C5_SegmentFraming ==
    Succeeded =>
        LET bc == c.bytecode
            pos == CodePosOf(bc)
        IN /\ pos <= Len(bc)
           /\ bc[pos] = Instruction.CODE_SEGMENT_START
           /\ Len(c.code_pages) >= 1 => SegmentsAt(bc, pos, c.code_pages, 1)
           /\ Len(c.code_pages) = 0 =>
                  SubSeq(bc, pos, Len(bc)) = <<Instruction.CODE_SEGMENT_START, 0, 1, Instruction.HALT>>

----------------------------------------------------------------------------
(* compile() of a root block of n literal forms 0, from the end of lowering *)

ZerosAst(n, m) ==
    Form("Begin", [i \in 1..n |-> Form("Begin", [j \in 1..m |-> Num(0)])])

\* the compiler after pushHeadersPhase1 and the lowering of ZerosAst(n, m):
\* n * m times LOAD_CONST 0 on page 0, the constant 0 in the value table
ZerosLowered(n, m, ts) ==
    [pushHeadersPhase1(NewCompiler, ts) EXCEPT
        !.code_pages = << [i \in 1..(3 * n * m) |->
                              IF i % 3 = 1 THEN Cell(Instruction.LOAD_CONST, "op", 0)
                              ELSE Cell(0, "arg", 0)] >>,
        !.values = IF n * m = 0 THEN <<>> ELSE <<ValOfNode(Num(0))>>]

\* ZerosLowered is what Phase1 and Lower reach on ZerosAst
ZerosLoweredIsLowering ==
    \A n \in 0..(MaxForms + 1) :
        (pc = "check" /\ ast = ZerosAst(n, 2)) => c = ZerosLowered(n, 2, timestamp)

\* root blocks of 252 .. 262 blocks of 85 literals: page 0 is 64260 .. 66810
\* bytes long, 65535 bytes with 257 blocks
BigBlocks == {<<n, 85>> : n \in 252..262}

InitBigPage ==
    /\ pc = "check"
    /\ \E nm \in BigBlocks :
          /\ ast = ZerosAst(nm[1], nm[2])
          /\ \E ts \in Timestamps :
                /\ timestamp = ts
                /\ compiler = Pack(ZerosLowered(nm[1], nm[2], ts))
    /\ hdr1 = SubSeq(c.bytecode, 1, header_size)
    /\ calls = <<>>
    /\ vm = NoVm

NextBigPage == Check \/ Phase2 \/ CodeSegments \/ Hash

SpecBigPage == InitBigPage /\ [][NextBigPage]_vars

----------------------------------------------------------------------------
(* addSymbol and addValue called on their own *)

TableNames == {nA, nB, nX}
TableNodes == {Num(0), Num(1), Str(nA)}
TablePages == {0, 1}

\* what a call did: the table and the entry it was given, the size of the
\* table before and after, the entry's 0-based position after the call, the
\* returned index and the error raised
CallRecord(table, entry, before, s) ==
    [table |-> table, entry |-> entry,
     size0 |-> Len(before), size1 |-> Len(s[table]),
     pos |-> Find(s[table], entry) - 1,
     ret |-> s.ret, err |-> s.err]

Returned(s, table, entry) ==
    /\ compiler' = Pack(s)
    /\ calls' = Append(calls, CallRecord(table, entry, c[table], s))
    /\ pc' = IF Failed(s) THEN "error" ELSE "tables"
    /\ UNCHANGED <<ast, timestamp, hdr1, vm>>

AddSymbol(names, limit) ==
    /\ pc = "tables"
    /\ Len(calls) < limit
    /\ \E name \in names : Returned(addSymbol(c, name), "symbols", name)

AddValue(nodes, limit) ==
    /\ pc = "tables"
    /\ Len(calls) < limit
    /\ \E x \in nodes : Returned(addValue(c, x), "values", ValOfNode(x))

AddValuePage(pages, limit) ==
    /\ pc = "tables"
    /\ Len(calls) < limit
    /\ \E page_id \in pages :
          Returned(addValuePage(c, page_id), "values", ValOfPage(page_id))

InitTables ==
    /\ pc = "tables"
    /\ ast = Form("Begin", <<>>)
    /\ timestamp = <<0, 0, 0, 0>>
    /\ compiler = Pack(NewCompiler)
    /\ hdr1 = <<>>
    /\ calls = <<>>
    /\ vm = NoVm

NextTables ==
    \/ AddSymbol(TableNames, MaxCalls)
    \/ AddValue(TableNodes, MaxCalls)
    \/ AddValuePage(TablePages, MaxCalls)

SpecTables == InitTables /\ [][NextTables]_vars

NoDuplicates(seq) == \A i, j \in 1..Len(seq) : seq[i] = seq[j] => i = j

IsPrefix(old, new) ==
    /\ Len(old) <= Len(new)
    /\ \A i \in 1..Len(old) : new[i] = old[i]

\* a call whose entry an earlier call had already put in the table
Repeats(j) ==
    \E i \in 1..(j - 1) :
        calls[i].table = calls[j].table /\ calls[i].entry = calls[j].entry

\* C7: after any sequence of addSymbol and addValue calls no two symbols
\* have the same name and no two constants the same tag and payload; the
\* entries already present keep their place (the tables only grow at the end);
\* a call with an entry already present returns the index returned the first
\* time and leaves the table unchanged.
C7_TablesUniqueAppendOnly ==
    /\ [](/\ NoDuplicates(c.symbols)
          /\ NoDuplicates(c.values)
          /\ \A j \in 1..Len(calls) : \A i \in 1..(j - 1) :
                (calls[i].table = calls[j].table /\ calls[i].entry = calls[j].entry)
                    => /\ calls[j].ret = calls[i].ret
                       /\ calls[j].size1 = calls[j].size0)
    /\ [][IsPrefix(c.symbols, c'.symbols) /\ IsPrefix(c.values, c'.values)]_vars

\* a call has repeated an entry of a table that held two entries, and the
\* other table has grown too
C7_Witness ==
    /\ pc = "tables"
    /\ Len(c.symbols) >= 1
    /\ Len(c.values) >= 1
    /\ \E j \in 1..Len(calls) : Repeats(j) /\ calls[j].size0 >= 2

----------------------------------------------------------------------------
(* addSymbol and addValue on tables that are nearly full *)

\* the tables after n calls of addSymbol and addValue with the distinct names
\* "1" .. "n" and the distinct numbers 1 .. n
FullSymbols(n) == [i \in 1..n |-> <<ToString(i)>>]
FullValues(n) == [i \in 1..n |-> ValOfNode(Num(i))]

FullSizes == {U16Max - 2, U16Max - 1, U16Max}
FullNames == {nA, nB, <<"1">>}
FullNodes == {Num(1), Str(nA)}
FullPages == {0}

InitTablesFull ==
    /\ pc = "tables"
    /\ ast = Form("Begin", <<>>)
    /\ timestamp = <<0, 0, 0, 0>>
    /\ \E n \in FullSizes :
          compiler = Pack([NewCompiler EXCEPT !.symbols = FullSymbols(n),
                                              !.values = FullValues(n)])
    /\ hdr1 = <<>>
    /\ calls = <<>>
    /\ vm = NoVm

NextTablesFull ==
    \/ AddSymbol(FullNames, MaxFullCalls)
    \/ AddValue(FullNodes, MaxFullCalls)
    \/ AddValuePage(FullPages, MaxFullCalls)

SpecTablesFull == InitTablesFull /\ [][NextTablesFull]_vars

TooMany(table) ==
    IF table = "symbols" THEN "Too many symbols" ELSE "Too many values"

\* C8: addSymbol and addValue return the entry's index for every table
\* position in [0, 65535] and raise 'Too many symbols' / 'Too many values'
\* exactly when the entry's position would be 65536 or more: a table of
\* 65536 distinct entries is accepted.
C8_AcceptsUpTo65535 ==
    \A j \in 1..Len(calls) :
        /\ calls[j].pos <= 65535 =>
               calls[j].err = "none" /\ calls[j].ret = calls[j].pos
        /\ calls[j].pos >= 65536 => calls[j].err = TooMany(calls[j].table)

----------------------------------------------------------------------------
(* The VM's frames and scope chain *)

\* m_frames is a sequence of frames; m_locals a sequence of handles into
\* heap, the scopes alive; a scope maps each symbol id to a value.

VmIds == {0, 1}
VmValues == {"v1", "v2"}
Undefined == "Undefined"

\* a Frame; at_call is the depth of the frame stack and the scope chain just
\* before the CALL that pushed it
Frame(depth, chain) ==
    [counter |-> 0, at_call |-> [frames |-> depth, locals |-> chain]]

back(seq) == seq[Len(seq)]
pop_back(seq) == SubSeq(seq, 1, Len(seq) - 1)

\* the end of the life of the scopes no handle of the chain refers to
Release(v) ==
    [v EXCEPT !.heap = SubSeq(@, 1, Max({0} \cup {v.locals[k] : k \in 1..Len(v.locals)}))]

\* VM_t::createNewScope
createNewScope(v) ==
    [v EXCEPT !.heap = Append(@, [id \in VmIds |-> Undefined]),
              !.locals = Append(@, Len(v.heap) + 1)]

\* VM_t::registerVariable<-1>
registerVariable(v, id, value) ==
    [v EXCEPT !.heap[back(v.locals)][id] = value]

\* VM_t::getVariableInScope<-1>
getVariableInScope(v, id) == v.heap[back(v.locals)][id]

\* the loop of findNearestVariable from the k-th scope of the chain outwards:
\* the position in the chain of the scope returned, 0 for nullptr
RECURSIVE findNearestFrom(_, _, _)
findNearestFrom(v, id, k) ==
    IF k = 0 THEN 0
    ELSE IF v.heap[v.locals[k]][id] # Undefined THEN k
    ELSE findNearestFrom(v, id, k - 1)

\* mutant of findNearestVariable: walks the chain from the outermost scope
findNearestVariable_Outermost(v, id) ==
    LET D == {k \in 1..Len(v.locals) : v.heap[v.locals[k]][id] # Undefined}
        k == IF D = {} THEN 0 ELSE Min(D)
    IN [vm |-> v,
        ret |-> IF k = 0 THEN [scope |-> 0, slot |-> id]
                ELSE [scope |-> v.locals[k], slot |-> id]]

\* VM_t::findNearestVariable: the VM after the call and the pointer returned,
\* a scope and a slot of it, scope 0 for nullptr
findNearestVariable(v, id) ==
    LET k == findNearestFrom(v, id, Len(v.locals))
    IN [vm |-> v,
        ret |-> IF k = 0 THEN [scope |-> 0, slot |-> id]
                ELSE [scope |-> v.locals[k], slot |-> id]]

\* mutant of returnFromFuncCall: reads the counter of the frame it pops
returnFromFuncCall_CalleeCounter(v) ==
    LET del_counter == back(v.frames).counter
        frames == pop_back(v.frames)
        locals == SubSeq(v.locals, 1, Len(v.locals) - 1 - del_counter)
    IN Release([v EXCEPT !.frames = [frames EXCEPT ![Len(frames)].counter = 0],
                         !.locals = locals])

\* VM_t::returnFromFuncCall
returnFromFuncCall(v) ==
    LET frames == pop_back(v.frames)
        del_counter == back(frames).counter
        locals == SubSeq(v.locals, 1, Len(v.locals) - 1 - del_counter)
    IN Release([v EXCEPT !.frames = [frames EXCEPT ![Len(frames)].counter = 0],
                         !.locals = locals])

\* CALL of a closure: the captured scope is pushed and counted in the frame
\* that executes the CALL, an empty scope is pushed on top of it, and the
\* callee's frame is pushed
call(v, captured) ==
    LET v1 == [v EXCEPT !.locals = Append(@, captured),
                        !.frames[Len(v.frames)].counter = (@ + 1) % 256]
        v2 == createNewScope(v1)
    IN [v2 EXCEPT !.frames = Append(@, Frame(Len(v.frames), v.locals))]

\* SAVE_ENV: the saved scope is the innermost scope
saveEnv(v) == [vm |-> v, saved |-> back(v.locals)]

\* CAPTURE id: the saved scope is a new scope holding the value of slot id
capture(v, id) ==
    [vm |-> [v EXCEPT !.heap = Append(@, [i \in VmIds |->
                         IF i = id THEN getVariableInScope(v, id) ELSE Undefined])],
     saved |-> Len(v.heap) + 1]

InitVM ==
    /\ pc = "vm"
    /\ ast = Form("Begin", <<>>)
    /\ timestamp = <<0, 0, 0, 0>>
    /\ compiler = Pack(NewCompiler)
    /\ hdr1 = <<>>
    /\ calls = <<>>
    /\ vm = [createNewScope(NoVm) EXCEPT !.frames = <<Frame(0, <<>>)>>]

\* LET / MUT: a value is stored in the innermost scope
VmRegister ==
    /\ \E id \in VmIds : \E value \in VmValues :
          vm' = [registerVariable(vm, id, value) EXCEPT !.log = [op |-> "register"]]
    /\ UNCHANGED <<pc, ast, timestamp, compiler, hdr1, calls>>

\* LOAD_SYMBOL / STORE / DEL: a symbol is looked up
VmFind ==
    /\ \E id \in VmIds :
          LET r == findNearestVariable(vm, id)
          IN vm' = [r.vm EXCEPT !.log = [op |-> "find", id |-> id, ret |-> r.ret,
                                         locals |-> vm.locals, heap |-> vm.heap]]
    /\ UNCHANGED <<pc, ast, timestamp, compiler, hdr1, calls>>

\* SAVE_ENV or CAPTURE, LOAD_CONST of the function and CALL of the closure
VmCall ==
    /\ Len(vm.frames) <= MaxDepth
    /\ \E r \in {saveEnv(vm)} \cup {capture(vm, id) : id \in VmIds} :
          vm' = [call(r.vm, r.saved) EXCEPT !.log = [op |-> "call"]]
    /\ UNCHANGED <<pc, ast, timestamp, compiler, hdr1, calls>>

\* RET in a frame above the root frame
VmRet ==
    /\ Len(vm.frames) >= 2
    /\ vm' = [returnFromFuncCall(vm) EXCEPT
                 !.log = [op |-> "ret", frames |-> back(vm.frames).at_call.frames,
                          locals |-> back(vm.frames).at_call.locals]]
    /\ UNCHANGED <<pc, ast, timestamp, compiler, hdr1, calls>>

NextVM == VmRegister \/ VmFind \/ VmCall \/ VmRet

SpecVM == InitVM /\ [][NextVM]_vars

\* the positions of the chain whose scope has slot id defined
DefinedAt(id) == {k \in 1..Len(vm.locals) : vm.heap[vm.locals[k]][id] # Undefined}

\* C9: findNearestVariable(id) returns slot id of the innermost scope of
\* the chain whose slot id is not Undefined, skipping the inner scopes where it
\* is Undefined; it returns no slot exactly when slot id is Undefined in every
\* scope of the chain; it modifies no scope.
C9_FindNearestInnermost ==
    vm.log.op = "find" =>
        LET id == vm.log.id
            ret == vm.log.ret
        IN /\ ret.scope = 0 <=> DefinedAt(id) = {}
           /\ ret.scope # 0 => /\ ret.scope = vm.locals[Max(DefinedAt(id))]
                               /\ ret.slot = id
           /\ vm.locals = vm.log.locals
           /\ vm.heap = vm.log.heap

\* a lookup has skipped an inner scope and stopped before an outer scope that
\* defines the symbol too
C9_Witness ==
    /\ vm.log.op = "find"
    /\ vm.log.ret.scope # 0
    /\ Max(DefinedAt(vm.log.id)) < Len(vm.locals)
    /\ \E k \in DefinedAt(vm.log.id) : vm.locals[k] # vm.log.ret.scope

\* a lookup of a symbol no scope of a chain of several scopes defines
C9_WitnessNull ==
    /\ vm.log.op = "find"
    /\ vm.log.ret.scope = 0
    /\ Len(vm.locals) >= 3

----------------------------------------------------------------------------
(* Compiler::_compile on one node *)

Op(name) == Sym(<<name>>)
FieldChain == <<Sym(nA), Field(nB)>>                                      \* a.b

\* the nodes handed to _compile
NodeInputs ==
    { Sym(nA), Sym(nMF), Op("print"), Op("nil"), Op("+"), Op("len"), Op("not"),
      Call(<<Op("+"), Num(1), Num(2)>>),                                 \* (+ 1 2)
      Call(<<Op("+"), Num(1), Num(2), Sym(nA)>>),                        \* (+ 1 2 a)
      Call(<<Op("+"), Num(1), Num(2)>> \o FieldChain),                   \* (+ 1 2 a.b)
      Call(<<Op("-")>> \o FieldChain \o <<Num(1)>>),                     \* (- a.b 1)
      Call(<<Op("-"), Num(1)>>),                                         \* (- 1)
      Call(<<Op("not")>> \o FieldChain),                                 \* (not a.b)
      Call(<<Op("<"), Num(1), Num(2)>>),                                 \* (< 1 2)
      Call(<<Op("<"), Num(1), Num(2), Num(3)>>),                         \* (< 1 2 3)
      Call(<<Op("<"), Num(1)>> \o FieldChain),                           \* (< 1 a.b)
      Call(<<Op("<"), Capt(nA), Num(1), Num(2)>>),                       \* (< &a 1 2)
      Call(<<Op("mod"), Num(1), Num(2), Num(3), Num(1)>>),               \* (mod 1 2 3 1)
      Call(<<Form("Begin", <<Op("+")>>), Num(1), Num(2)>>),              \* ((begin +) 1 2)
      Call(<<Op("list")>>),                                              \* (list)
      Call(<<Op("list"), Num(1)>> \o FieldChain),                        \* (list 1 a.b)
      Call(<<Op("list"), Field(nB)>>),                                   \* (list .b)
      Call(<<Op("list"), Field(nB), Num(1)>>),                           \* (list .b 1)
      Call(<<Op("append"), Sym(nA)>>),                                   \* (append a)
      Call(<<Op("append"), Sym(nA), Num(1)>>),                           \* (append a 1)
      Call(<<Op("concat")>> \o FieldChain \o <<Sym(nB), Field(nA), Field(nX), Num(2)>>),
                                                                         \* (concat a.b b.a.x 2)
      Call(<<Op("pop"), Sym(nA), Num(1)>>),                              \* (pop a 1)
      Call(<<Sym(nA), Num(1)>>),                                         \* (a 1)
      Call(<<Sym(nA)>>),                                                 \* (a)
      Call(FieldChain \o <<Num(1)>> \o FieldChain),                      \* (a.b 1 a.b)
      Call(<<Op("print"), Num(1), Capt(nA), Num(2)>>),                   \* (print 1 &a 2)
      Call(<<Sym(nMF), Sym(nB)>>),                                       \* (m:f b)
      Call(<<Call(<<Sym(nA), Num(1)>>), Num(2)>>),                       \* ((a 1) 2)
      Call(<<Call(<<Sym(nA), Call(<<Sym(nB)>>)>>), Call(<<Sym(nB), Num(2)>>)>>),
                                                                         \* ((a (b)) (b 2))
      Call(<<Form("Fun", <<List(<<Sym(nX)>>), Sym(nX)>>), Num(1)>>),     \* ((fun (x) x) 1)
      Call(<<Form("Fun", <<List(<<Capt(nA)>>), Sym(nA)>>), Sym(nB)>>),   \* ((fun (&a) a) b)
      Call(<<Form("If", <<Num(1), Op("print"), Op("print")>>),
             Call(<<Op("+"), Num(1), Num(2)>>)>>),                       \* ((if 1 print print) (+ 1 2))
      Call(<<Form("Begin", <<>>), Num(1)>>),                             \* ((begin) 1)
      Call(<<Call(<<Op("+")>>), Num(1), Num(2)>>),                       \* ((+) 1 2)
      Form("If", <<Sym(nA), Num(1), Num(2)>>),                           \* (if a 1 2)
      Form("If", <<Sym(nA), Num(1)>>),                                   \* (if a 1)
      Form("If", <<Sym(nB), Form("If", <<Sym(nA), Num(1)>>)>>),          \* (if b (if a 1))
      Form("If", <<Call(<<Op("<"), Sym(nA), Num(1)>>),
                   Form("If", <<Sym(nA), Num(1), Num(2)>>),
                   Call(<<Sym(nB), Num(2)>>)>>),                         \* (if (< a 1) (if a 1 2) (b 2))
      Form("Fun", <<List(<<Capt(nB)>>), Sym(nB)>>),                      \* (fun (&b) b)
      Form("Fun", <<List(<<Sym(nX), Capt(nA), Capt(nB)>>),
                    Call(<<Op("-"), Sym(nX), Sym(nA)>>)>>),              \* (fun (x &a &b) (- x a))
      Form("Fun", <<List(<<Capt(nA)>>),
                    Form("Fun", <<List(<<Capt(nA), Sym(nX)>>), Sym(nX)>>)>>),
                                                                         \* (fun (&a) (fun (&a x) x))
      Form("Begin", <<Form("Fun", <<List(<<Capt(nA)>>), Sym(nA)>>),
                      Form("Fun", <<List(<<Capt(nB)>>), Sym(nB)>>)>>),   \* (begin (fun (&a) a) (fun (&b) b))
      Form("Begin", <<Call(<<Sym(nA), Num(1)>>),
                      Call(<<Call(<<Sym(nA), Num(1)>>), Call(<<Op("+"), Num(1), Num(2)>>)>>),
                      Call(<<Op("not"), Call(<<Sym(nB)>>)>>)>>),          \* (begin (a 1) ((a 1) (+ 1 2)) (not (b)))
      Form("Begin", <<Form("Let", <<Sym(nX), Num(2)>>),
                      Form("Fun", <<List(<<Capt(nX)>>), Sym(nX)>>)>>)    \* (begin (let x 2) (fun (&x) x))
    }

\* what has been compiled on page 0 before the node
Preludes ==
    { <<>>,
      <<Form("Let", <<Sym(nA), Num(1)>>)>>,                               \* (let a 1)
      <<Form("Let", <<Sym(nA), Num(1)>>), Form("Mut", <<Sym(nB), Str(<<"s">>)>>)>> }

\* the Compiler object once compile() has created page 0 and _compile has
\* lowered the forms of q on it
Entered(q) ==
    compileRange([NewCompiler EXCEPT !.code_pages = <<<<>>>>], q, 0, Len(q), 0)

\* the node is compiled on page 0, or on a temp page pushed by handleCalls
NodeStates ==
    {Entered(q) : q \in Preludes}
        \cup {[Entered(q) EXCEPT !.temp_pages = <<<<>>>>] : q \in Preludes}

InitNode ==
    /\ pc = "node"
    /\ ast \in NodeInputs
    /\ timestamp = <<0, 0, 0, 0>>
    /\ compiler \in {Pack(s) : s \in NodeStates}
    /\ hdr1 = <<>>
    /\ calls = <<>>
    /\ vm = NoVm

\* _compile(x, p)
CompileNode ==
    /\ pc = "node"
    /\ \E u \in UbOutcomes :
          LET p == -Len(c.temp_pages) IN
          /\ compiler' = Pack([compile_node([c EXCEPT !.ub = u], ast, p) EXCEPT !.ub = 0, !.ret = 0])
          /\ calls' = <<[before |-> compiler, p |-> p, ub |-> u]>>
    /\ pc' = IF Failed(c') THEN "failed" ELSE "compiled"
    /\ UNCHANGED <<ast, timestamp, hdr1, vm>>

NextNode == CompileNode

SpecNode == InitNode /\ [][NextNode]_vars

\* the Compiler object _compile was entered with, and the page it wrote on
Before == Unpack(calls[1].before)
NodeP == calls[1].p
Compiled == pc = "compiled"
Returned_ == pc \in {"compiled", "failed"}

\* the children of a call: the callee with its leading GetField chain is
\* children 1..CalleeEnd(x), the rest are argument children
IsCall(x) ==
    /\ x.type = "List"
    /\ x.list # <<>>
    /\ x.list[1].type # "Keyword"
    /\ ~(x.list[1].type = "Symbol" /\ isSpecific(x.list[1].name) >= 0)

CalleeEnd(x) ==
    LET N == {k \in 2..Len(x.list) : x.list[k].type # "GetField"} IN
    IF N = {} THEN Len(x.list) ELSE Min(N) - 1

\* counted arguments: children after the head that are neither GetField nor Capture
Counted(lst) == {k \in 2..Len(lst) : lst[k].type \notin {"GetField", "Capture"}}

\* the last child of the GetField chain that follows child k
ChainEnd(lst, k) ==
    Max({e \in k..Len(lst) : \A i \in (k + 1)..e : lst[i].type = "GetField"})

\* the callee and its GetField chain compiled on a fresh temp page
CalleeCompiled(s, x) ==
    LET s0 == [s EXCEPT !.temp_pages = Append(@, <<>>)] IN
    compileRange(s0, x.list, 0, CalleeEnd(x), -Len(s0.temp_pages))

CalleePage(s, x) == LET t == CalleeCompiled(s, x) IN t.temp_pages[Len(t.temp_pages)]

PopTemp(s) == [s EXCEPT !.temp_pages = SubSeq(@, 1, Len(@) - 1)]

\* arg_m op for the arguments from child k on, m being the number of complete
\* arguments already emitted
RECURSIVE ChainedArgs(_, _, _, _, _, _)
ChainedArgs(s, lst, k, m, op, p) ==
    IF Failed(s) \/ k > Len(lst) THEN s
    ELSE LET e == ChainEnd(lst, k)
             s1 == compileRange(s, lst, k - 1, e, p)
             s2 == IF ~Failed(s1) /\ m + 1 >= 2 THEN emit(s1, p, op) ELSE s1
         IN ChainedArgs(s2, lst, e + 1, m + 1, op, p)

\* an operator call all of whose argument children are arguments or fields
PlainOperatorCall(s, x) ==
    /\ IsCall(x)
    /\ ~Failed(CalleeCompiled(s, x))
    /\ Len(CalleePage(s, x)) = 1
    /\ \A k \in (CalleeEnd(x) + 1)..Len(x.list) : x.list[k].type # "Capture"
    /\ Cardinality(Counted(x.list)) >= 1

\* arg1 arg2 op arg3 op ... argm op, and arg1 op for one argument
OperatorChain(s, x, p) ==
    LET op == CalleePage(s, x)[1].b
        s1 == ChainedArgs(PopTemp(CalleeCompiled(s, x)), x.list, CalleeEnd(x) + 1, 0, op, p)
    IN IF ~Failed(s1) /\ Cardinality(Counted(x.list)) = 1 THEN emit(s1, p, op) ELSE s1

\* C11: an operator call with m >= 1 arguments emits arg1 arg2 op arg3 op ...
\* argm op on the current page (arg1 op when m = 1), each op right after a
\* complete argument, GetField chain included
C11_OperatorChain ==
    (Compiled /\ PlainOperatorCall(Before, ast))
        => page(c, NodeP) = page(OperatorChain(Before, ast, NodeP), NodeP)

\* a specific form (list, append, concat, ...) that passes the argument count test
IsSpecificForm(x) ==
    /\ x.type = "List"
    /\ x.list # <<>>
    /\ x.list[1].type = "Symbol"
    /\ isSpecific(x.list[1].name) >= 0
    /\ (countArkObjects(x.list) - 1 >= 2 \/ isSpecific(x.list[1].name) = Instruction.LIST)

\* the children 2..i, argument by argument from the last to the first, each
\* argument being its base followed by its fields in source order
RECURSIVE ReverseArgs(_, _, _, _)
ReverseArgs(s, lst, i, p) ==
    IF Failed(s) \/ i < 2 THEN s
    ELSE LET b == Max({k \in 2..i : lst[k].type # "GetField"} \cup {2})
         IN ReverseArgs(compileRange(s, lst, b - 1, i, p), lst, b - 1, p)

SpecificForm(s, x, p) ==
    LET inst == isSpecific(x.list[1].name)
        argc == countArkObjects(x.list) - 1
        s1 == emit(ReverseArgs(s, x.list, Len(x.list), p), p, inst)
    IN IF inst = Instruction.LIST THEN pushNumber(s1, argc, p)
       ELSE IF inst \in {Instruction.APPEND, Instruction.APPEND_IN_PLACE,
                         Instruction.CONCAT, Instruction.CONCAT_IN_PLACE}
       THEN pushNumber(s1, argc - 1, p)
       ELSE s1

\* C12: compileSpecific returns for every specific form, also when the first
\* child after the head is a GetField, having compiled each child after the
\* head once and never the head: arguments in reverse source order, each as
\* base then fields, then the opcode and its operand
C12_SpecificReverseOrder ==
    (Returned_ /\ IsSpecificForm(ast))
        => /\ Compiled
           /\ page(c, NodeP) = page(SpecificForm(Before, ast, NodeP), NodeP)
           /\ c.symbols = SpecificForm(Before, ast, NodeP).symbols

\* a call whose callee temp page is longer than one byte
FullCall(s, x) ==
    /\ IsCall(x)
    /\ ~Failed(CalleeCompiled(s, x))
    /\ Len(CalleePage(s, x)) > 1

\* the arguments of a call compiled in source order on page p
ArgsCompiled(s, x, p) ==
    compileRange(PopTemp(CalleeCompiled(s, x)), x.list, CalleeEnd(x), Len(x.list), p)

CallBytes(n) ==
    <<Cell(Instruction.CALL, "op", 0), Cell(Hi(n), "arg", 0), Cell(Lo(n), "arg", 0)>>

\* C13: a call whose callee temp page is longer than one byte appends to the
\* current page the code of its arguments in source order, then the whole
\* callee temp page, then CALL with the number of children after the head that
\* are neither GetField nor Capture
C13_CallLayout ==
    (Compiled /\ FullCall(Before, ast))
        => page(c, NodeP) = page(ArgsCompiled(Before, ast, NodeP), NodeP)
                                \o CalleePage(Before, ast)
                                \o CallBytes(Cardinality(Counted(ast.list)))

\* a call of a callee that is itself a call, with arguments that are calls
C13_Witness ==
    /\ Compiled
    /\ FullCall(Before, ast)
    /\ IsCall(ast.list[1])
    /\ \E k \in Counted(ast.list) : IsCall(ast.list[k])
    /\ Len(page(c, NodeP)) > Len(page(Before, NodeP)) + Len(CalleePage(Before, ast)) + 3

\* the cells _compile appended to the page it wrote on
Emitted ==
    SubSeq(page(c, NodeP), Len(page(Before, NodeP)) + 1, Len(page(c, NodeP)))

WithU16(inst, n) ==
    <<Cell(inst, "op", 0), Cell(Hi(n), "arg", 0), Cell(Lo(n), "arg", 0)>>

C14_WitnessBuiltin ==
    /\ Compiled
    /\ ast.type = "Symbol"
    /\ isOperator(ast.name) < 0
    /\ isBuiltin(ast.name) >= 0

C14_WitnessSymbol ==
    /\ Compiled
    /\ ast.type = "Symbol"
    /\ isOperator(ast.name) < 0
    /\ isBuiltin(ast.name) < 0
    /\ Len(c.symbols) > Len(Before.symbols)

\* a call whose callee temp page is the single byte of an operator
OperatorCall(s, x) ==
    /\ IsCall(x)
    /\ ~Failed(CalleeCompiled(s, x))
    /\ Len(CalleePage(s, x)) = 1

\* the operators that may be chained
Chainable ==
    {Instruction.ADD, Instruction.SUB, Instruction.MUL, Instruction.DIV,
     Instruction.MOD, Instruction.AND_, Instruction.OR_}

ChainedError == c.err = "can not create a chained expression"

\* C15: an operator call raises the chained expression error if and only if it
\* has more than two counted arguments (children that are neither GetField nor
\* Capture) and its operator is not ADD, SUB, MUL, DIV, MOD, AND_ or OR_
C15_ChainedErrorIff ==
    (Returned_ /\ OperatorCall(Before, ast) /\ (Compiled \/ ChainedError))
        => (ChainedError <=> /\ Cardinality(Counted(ast.list)) > 2
                             /\ CalleePage(Before, ast)[1].b \notin Chainable)

IsIf(x) == x.type = "List" /\ x.list # <<>> /\ x.list[1].type = "Keyword" /\ x.list[1].kw = "If"

\* page p from (0-based) offset from up to offset to, excluded
Bytes(s, p, from, to) == SubSeq(page(s, p), from + 1, to)

\* C16: (if cond then [else]) emits cond, POP_JUMP_IF_TRUE A, else when
\* present, JUMP B, then; A is the page offset of the first byte of the then
\* code, B the page offset just past it, and back-patching changed nothing but
\* the two operand bytes of each jump
C16_IfLayout ==
    (Compiled /\ IsIf(ast))
        => LET p == NodeP
               \* the same code with both operands left at their placeholder
               cond == compile_node(Before, ast.list[2], p)
               jumpIf == pushNumber(emit(cond, p, Instruction.POP_JUMP_IF_TRUE), 0, p)
               else == IF Len(ast.list) = 4 THEN compile_node(jumpIf, ast.list[4], p) ELSE jumpIf
               jump == pushNumber(emit(else, p, Instruction.JUMP), 0, p)
               then == compile_node(jump, ast.list[3], p)
               posA == pageSize(cond, p) + 1
               posB == pageSize(else, p) + 1
               A == pageSize(jump, p)
               B == pageSize(then, p)
               pg == page(c, p)
           IN /\ Len(pg) = B
              /\ Bytes(c, p, 0, posA) = Bytes(then, p, 0, posA)
              /\ Bytes(c, p, posA + 2, posB) = Bytes(then, p, posA + 2, posB)
              /\ Bytes(c, p, posB + 2, B) = Bytes(then, p, posB + 2, B)
              /\ pg[posA + 1].k = "arg" /\ pg[posA + 2].k = "arg"
              /\ pg[posB + 1].k = "arg" /\ pg[posB + 2].k = "arg"
              /\ U16(pg[posA + 1].b, pg[posA + 2].b) = A
              /\ U16(pg[posB + 1].b, pg[posB + 2].b) = B
              /\ A = posB + 2

\* _compile of an if form that follows 252 .. 262 blocks of 85 literals in the
\* root block: page 0 holds 64260 .. 66810 bytes when the form is reached
IfNodes == {x \in NodeInputs : IsIf(x)}

InitBigNode ==
    /\ pc = "node"
    /\ ast \in IfNodes
    /\ timestamp = <<0, 0, 0, 0>>
    /\ \E nm \in BigBlocks : compiler = Pack(ZerosLowered(nm[1], nm[2], timestamp))
    /\ hdr1 = <<>>
    /\ calls = <<>>
    /\ vm = NoVm

SpecBigNode == InitBigNode /\ [][NextNode]_vars

IsFun(x) == x.type = "List" /\ x.list # <<>> /\ x.list[1].type = "Keyword" /\ x.list[1].kw = "Fun"

\* the pages of the compiler, final and temp
AllPages(s) ==
    {s.code_pages[i] : i \in 1..Len(s.code_pages)}
        \cup {s.temp_pages[i] : i \in 1..Len(s.temp_pages)}

\* the names captured by a Fun form, in source order
RECURSIVE CaptureNames(_, _)
CaptureNames(lst, k) ==
    IF k > Len(lst) THEN <<>>
    ELSE IF lst[k].type = "Capture" THEN <<lst[k].name>> \o CaptureNames(lst, k + 1)
    ELSE CaptureNames(lst, k + 1)

\* CAPTURE id for each name, ids taken from the symbol table
RECURSIVE CaptureBytes(_, _)
CaptureBytes(symbols, names) ==
    IF names = <<>> THEN <<>>
    ELSE WithU16(Instruction.CAPTURE, Find(symbols, Head(names)) - 1)
             \o CaptureBytes(symbols, Tail(names))

\* the instruction that follows the CAPTURE at k is a CAPTURE or the
\* LOAD_CONST of the PageAddr of a function page
CaptureFollowed(s, pg, k) ==
    /\ k + 3 <= Len(pg)
    /\ \/ pg[k + 3].k = "op" /\ pg[k + 3].b = Instruction.CAPTURE
       \/ /\ pg[k + 3].k = "fn"
          /\ pg[k + 3].b = Instruction.LOAD_CONST
          /\ k + 5 <= Len(pg)
          /\ Operand(pg, k + 3) < Len(s.values)
          /\ s.values[Operand(pg, k + 3) + 1] = ValOfPage(pg[k + 3].pg)
          /\ pg[k + 3].pg \in 1..(Len(s.code_pages) - 1)

\* C17: on every page, a CAPTURE is followed only by further CAPTUREs and then
\* at once by the LOAD_CONST of the PageAddr of the function's page; a Fun form
\* emits its CAPTUREs and that LOAD_CONST and nothing between, only for names
\* already defined, and aborts with "Can not capture" otherwise
C17_CaptureRuns ==
    /\ Compiled =>
          \A pg \in AllPages(c) : \A k \in WithOperand(pg, {Instruction.CAPTURE}) :
              /\ CaptureFollowed(c, pg, k)
              /\ Operand(pg, k) < Len(c.symbols)
              /\ Find(c.defined, c.symbols[Operand(pg, k) + 1]) > 0
    /\ (Compiled /\ IsFun(ast)) =>
          /\ \A i \in 1..Len(CaptureNames(ast.list[2].list, 1)) :
                Find(Before.defined, CaptureNames(ast.list[2].list, 1)[i]) > 0
          /\ \E v \in 0..(Len(c.values) - 1) :
                /\ c.values[v + 1] = ValOfPage(Len(Before.code_pages))
                /\ [i \in 1..Len(Emitted) |-> Emitted[i].b]
                      = [i \in 1..(3 * Len(CaptureNames(ast.list[2].list, 1)) + 3) |->
                            (CaptureBytes(c.symbols, CaptureNames(ast.list[2].list, 1))
                                \o WithU16(Instruction.LOAD_CONST, v))[i].b]
    /\ (Returned_ /\ IsFun(ast)
            /\ \E i \in 1..Len(CaptureNames(ast.list[2].list, 1)) :
                  Find(Before.defined, CaptureNames(ast.list[2].list, 1)[i]) = 0)
          => (pc = "failed" /\ c.err = "Can not capture")

\* a Fun form with two captures, compiled where both names are defined
C17_Witness ==
    /\ Compiled
    /\ IsFun(ast)
    /\ Len(CaptureNames(ast.list[2].list, 1)) = 2
    /\ Len(Emitted) = 9

\* a Fun form that captures a name never defined
C17_WitnessUnbound ==
    /\ pc = "failed"
    /\ IsFun(ast)
    /\ c.err = "Can not capture"

\* C18: a handleCalls that returns leaves the temp stack as deep as it found
\* it and the pages below its own untouched, the page it reads back after
\* compiling the callee is the one it pushed, the content of a callee page
\* longer than one byte is on the current page once it is popped, and the temp
\* stack that was empty on entry (compile()) is empty at the end
C18_TempStackDiscipline ==
    Compiled =>
        /\ Len(c.temp_pages) = Len(Before.temp_pages)
        /\ \A i \in 1..Len(Before.temp_pages) :
              IF i = -NodeP THEN IsPrefix(Before.temp_pages[i], c.temp_pages[i])
              ELSE c.temp_pages[i] = Before.temp_pages[i]
        /\ Before.temp_pages = <<>> => c.temp_pages = <<>>
        /\ IsCall(ast) =>
              LET t == CalleeCompiled(Before, ast)
                  top == CalleePage(Before, ast)
                  pg == page(c, NodeP)
              IN /\ Len(t.temp_pages) = Len(Before.temp_pages) + 1
                 /\ SubSeq(t.temp_pages, 1, Len(Before.temp_pages)) = Before.temp_pages
                 /\ Len(top) > 1 =>
                       SubSeq(pg, Len(pg) - 2 - Len(top), Len(pg) - 3) = top

\* a call returned whose callee is itself a call, entered with a temp page
\* already on the stack
C18_Witness ==
    /\ Compiled
    /\ IsCall(ast)
    /\ IsCall(ast.list[1])
    /\ Len(CalleePage(Before, ast)) > 1
    /\ Len(Before.temp_pages) = 1
    /\ Len(c.temp_pages) = 1

OperatorOpcodes ==
    {Instruction.FIRST_OPERATOR + i : i \in 0..(Len(operators) - 1)}

\* C20: when handleCalls takes its operator branch, the callee temp page it
\* reads the first byte of holds exactly one byte, an operator opcode; no
\* callee compiles to an empty temp page and the read is within bounds
C20_OperatorPageOneByte ==
    (Returned_ /\ IsCall(ast) /\ ~Failed(CalleeCompiled(Before, ast))
               /\ Len(CalleePage(Before, ast)) <= 1)
        => /\ Len(CalleePage(Before, ast)) = 1
           /\ CalleePage(Before, ast)[1].b \in OperatorOpcodes
           /\ c.err # "crash"

----------------------------------------------------------------------------
(* The VM reading the operands of a compiled container *)

\* the programs compiled and loaded
LoadAsts ==
    { Form("Begin", <<Forms[1], Forms[10]>>),            \* (begin (let a 1) (fun (x &a) (- x a)))
      Form("Begin", <<Forms[2], Forms[11], Forms[22]>>), \* (begin (mut b "s") (quote (print 1)) (fun (&b) b))
      Form("Begin", <<Forms[1], Forms[8]>>),             \* (begin (let a 1) (if a 1 2))
      Form("Begin", <<Forms[21], Forms[11]>>),           \* (begin ((fun (x) x) 1) (quote (print 1)))
      Form("Begin", <<Forms[1], Forms[9]>>) }            \* (begin (let a 1) (while a (set a 2)))

\* the code segments from pos on, appended to m_pages, each start recorded in
\* m_pages_table; a segment's length counts its closing HALT
RECURSIVE LoadPages(_, _, _)
LoadPages(bc, pos, v) ==
    IF pos > Len(bc) \/ bc[pos] # Instruction.CODE_SEGMENT_START THEN v
    ELSE LET size == U16(bc[pos + 1], bc[pos + 2]) IN
         LoadPages(bc, pos + 3 + size,
                   [v EXCEPT !.pages_table = Append(@, Len(v.pages)),
                             !.pages = @ \o SubSeq(bc, pos + 3, pos + 2 + size)])

\* VM_t::configure: the page part
configure(bc) ==
    LoadPages(bc, CodePosOf(bc),
              [pages |-> <<>>, pages_table |-> <<>>, ip |-> 0, pp |-> 0, log |-> NoLog])

\* VM_t::readNumber
readNumber(v) ==
    LET x == (v.pages[v.ip + 1] * 256) % 65536
        y == v.pages[v.ip + 2]
    IN [v EXCEPT !.ip = @ + 1,
                 !.log = [op |-> "readNumber", pp |-> v.pp, ip |-> v.ip,
                          read |-> <<v.ip, v.ip + 1>>, value |-> (x + y) % 65536]]

\* the in-page offsets (0-based) of the operands of a page: the byte after an
\* opcode that carries a 16-bit operand
OperandOffsets(pg) ==
    {k \in InstStarts(pg) : k + 2 <= Len(pg) /\ pg[k + 1].k = "arg" /\ pg[k + 2].k = "arg"}

InitLoad ==
    /\ pc = "start"
    /\ ast \in LoadAsts
    /\ timestamp = <<0, 0, 0, 0>>
    /\ compiler = Pack(NewCompiler)
    /\ hdr1 = <<>>
    /\ calls = <<>>
    /\ vm = NoVm

\* feed(bytecode); configure();
Configure ==
    /\ pc = "done"
    /\ vm' = configure(c.bytecode)
    /\ pc' = "vm"
    /\ UNCHANGED <<ast, timestamp, compiler, hdr1, calls>>

\* the dispatch loop has fetched, on page pp, an opcode that carries an
\* operand, and advanced m_ip to the operand: readNumber()
Decode ==
    /\ pc = "vm"
    /\ \E pp \in 0..(Len(vm.pages_table) - 1) :
          \E ip \in OperandOffsets(c.code_pages[pp + 1]) :
              vm' = readNumber([vm EXCEPT !.pp = pp, !.ip = ip])
    /\ UNCHANGED <<pc, ast, timestamp, compiler, hdr1, calls>>

NextLoad == Phase1 \/ Lower \/ Check \/ Phase2 \/ CodeSegments \/ Hash \/ Configure \/ Decode

SpecLoad == InitLoad /\ [][NextLoad]_vars

\* C19: decoding an operand on page pp at in-page offset ip reads the bytes at
\* pages[page_offsets[pp] + ip] and the next one, on every page, and returns
\* high * 256 + low, the number pushNumber wrote there
C19_ReadNumberInPage ==
    vm.log.op = "readNumber"
        => LET at == vm.pages_table[vm.log.pp + 1] + vm.log.ip
               pg == c.code_pages[vm.log.pp + 1]
           IN /\ vm.log.read = <<at, at + 1>>
              /\ vm.log.value = vm.pages[at + 1] * 256 + vm.pages[at + 2]
              /\ vm.log.value = U16(pg[vm.log.ip + 1].b, pg[vm.log.ip + 2].b)

----------------------------------------------------------------------------
(* compile() of programs that set, delete and read fields of names *)

nM == <<"m">>
SelfCapture == Form("Fun", <<List(<<Capt(nA)>>), Sym(nA)>>)              \* (fun (&a) a)

UnboundForms ==
    << Form("Let", <<Sym(nA), Num(1)>>),                                  \* (let a 1)
       Form("Mut", <<Sym(nB), Str(<<"s">>)>>),                            \* (mut b "s")
       Form("Set", <<Sym(nA), Num(2)>>),                                  \* (set a 2)
       Form("Set", <<Sym(nX), Call(<<Op("+"), Num(1), Num(2)>>)>>),       \* (set x (+ 1 2))
       Form("Del", <<Sym(nB)>>),                                          \* (del b)
       Form("Del", <<Sym(nX)>>),                                          \* (del x)
       Call(<<Op("print"), Sym(nA), Field(nB)>>),                         \* (print a.b)
       Call(<<Op("print"), Sym(nA), Field(nX)>>),                         \* (print a.x)
       Form("Fun", <<List(<<Sym(nX)>>), Sym(nX)>>),                       \* (fun (x) x)
       SelfCapture,                                                       \* (fun (&a) a)
       Form("Import", <<Str(nPlugin)>>),                                  \* (import "lib/m.arkm")
       Form("Set", <<Sym(nMF), Num(1)>>),                                 \* (set m:f 1)
       Form("Del", <<Sym(nM)>>),                                          \* (del m)
       Form("Let", <<Sym(nA), SelfCapture>>),                             \* (let a (fun (&a) a))
       Form("Set", <<Sym(nB), Form("Mut", <<Sym(nB), Num(1)>>)>>)         \* (set b (mut b 1))
    >>

RECURSIVE UnboundSeqs(_)
UnboundSeqs(n) ==
    IF n = 0 THEN {<<>>}
    ELSE LET R == UnboundSeqs(n - 1) IN
         R \cup {Append(q, UnboundForms[k]) :
                    q \in {r \in R : Len(r) = n - 1}, k \in 1..Len(UnboundForms)}

InitUnbound ==
    /\ pc = "start"
    /\ ast \in {Form("Begin", q) : q \in UnboundSeqs(MaxForms)}
    /\ timestamp = <<0, 0, 0, 0>>
    /\ compiler = Pack(NewCompiler)
    /\ hdr1 = <<>>
    /\ calls = <<>>
    /\ vm = NoVm

SpecUnbound == InitUnbound /\ [][Next]_vars

IsForm(x, kws) ==
    x.type = "List" /\ x.list # <<>> /\ x.list[1].type = "Keyword" /\ x.list[1].kw \in kws

\* the children of a node that _compile is called on
Compiled_(x) ==
    IF x.type # "List" THEN {}
    ELSE IF IsForm(x, {"Set", "Let", "Mut", "Fun"}) THEN 3..Len(x.list)
    ELSE IF IsForm(x, {"Del", "Import"}) THEN {}
    ELSE 1..Len(x.list)

\* the names that occur in a Set, Del or GetField
RECURSIVE SetDelFieldNames(_)
SetDelFieldNames(x) ==
    (IF x.type = "GetField" \/ IsForm(x, {"Set", "Del"})
     THEN {IF x.type = "GetField" THEN x.name ELSE x.list[2].name} ELSE {})
        \cup UNION {SetDelFieldNames(x.list[k]) : k \in Compiled_(x)}

\* the names that occur in a let, a mut, a function parameter or a capture
RECURSIVE BoundNames(_)
BoundNames(x) ==
    (IF IsForm(x, {"Let", "Mut"}) THEN {x.list[2].name}
     ELSE IF IsForm(x, {"Fun"})
     THEN {x.list[2].list[k].name : k \in 1..Len(x.list[2].list)}
     ELSE {})
        \cup UNION {BoundNames(x.list[k]) : k \in Compiled_(x)}

\* the stems of the plugins imported
RECURSIVE PluginStems(_)
PluginStems(x) ==
    (IF IsForm(x, {"Import"}) THEN {stem(x.list[2].name)} ELSE {})
        \cup UNION {PluginStems(x.list[k]) : k \in Compiled_(x)}

\* the names that occur only in Set, Del or GetField forms and have no
\* matching plugin prefix
OnlySetDelField(x) ==
    {n \in SetDelFieldNames(x) \ BoundNames(x) : splitFirst(n) \notin PluginStems(x)}

\* the Capture nodes of the program sit in the value of a let of their name
CapturesOwnLet(x) ==
    \A k \in 2..Len(x.list) :
        \/ x.list[k] = Form("Let", <<Sym(nA), SelfCapture>>)
        \/ /\ x.list[k] # SelfCapture
           /\ \A j \in Compiled_(x.list[k]) : x.list[k].list[j] # SelfCapture

UnboundError == pc = "error" /\ c.err = "Unbound variable error"

C21_WitnessLet ==
    /\ Succeeded
    /\ \E k \in 2..Len(ast.list) : ast.list[k] = Form("Let", <<Sym(nA), SelfCapture>>)
    /\ \E k \in 2..Len(ast.list) : IsForm(ast.list[k], {"Set"})

====
